---- MODULE Spec2Model ----
(***************************************************************************)
(* Warning reconciliation and severity classification of                   *)
(* extreme-event-analysis (event_data_commons.py, event_data_processor.py).*)
(*                                                                         *)
(* Data frames are sequences of records.  Every measured quantity and      *)
(* every threshold is an integer number of TENTHS of its unit (the code    *)
(* rounds every derived value to one decimal), so 95 km/h is 950 and       *)
(* -12 degrees is -120.  A missing value (NaN, NaT, None) is the sentinel  *)
(* NaN, for which every ordering comparison is false, as in Python.        *)
(***************************************************************************)
EXTENDS Integers, Sequences, FiniteSets, TLC

VARIABLES
    pc,          \* the step of the run that comes next
    stations,    \* the stations frame of geolocate_stations, as stored and read back
    stat,        \* the row copies the loop over stations.iterrows() has handled
    capFiles,    \* the CAP bulletins of the event read so far, in reading order
    caps,        \* number of CAP bulletins of the event parsed so far
    capsDf,      \* the frame __extract_caps_data__ builds, one row per bulletin
    expandedDf,  \* the frame __transform_caps_warnings__ returns
    warningsFile,\* the frame __clean_caps_files__ returns, stored as warnings file
    observed,    \* __DATAFRAME_OBSERVED_DATA__
    thresholds,  \* __DATAFRAME_THRESHOLD_DATA__
    geocodes,    \* __DATAFRAME_GEOCODES__
    warnings,    \* __DATAFRAME_WARNINGS__
    extended,    \* __DATAFRAME_WARNINGS_EXTENDED__
    prepared,    \* __DATAFRAME_PREPARED_DATA__
    files,       \* the files of the event that exist on disk
    event,       \* __EVENT_START__ and __EVENT_END__, as days
    calls,       \* the functions the run has invoked, in order
    requests,    \* the attempts made on the OpenData service, in order
    attempt,     \* attempts already made by the call of a request function in progress
    day,         \* the day the download loop in progress has reached
    snow_level   \* the table get_snow_level reads

vars == <<pc, stations, stat, capFiles, caps, capsDf, expandedDf, warningsFile, observed,
          thresholds, geocodes, warnings, extended, prepared,
          files, event, calls, requests, attempt, day, snow_level>>

runVars == <<files, event, calls, requests, attempt, day>>

\* No download in progress and none made.
NoRun ==
    /\ files = {}
    /\ event = [start |-> 0, end |-> 0]
    /\ calls = <<>>
    /\ requests = <<>>
    /\ attempt = 0
    /\ day = 0
    /\ snow_level = <<>>

locVars == <<stations, stat>>
consVars == <<capFiles, caps, capsDf, expandedDf, warningsFile>>
procVars == <<observed, thresholds, geocodes, warnings, extended, prepared>>

(***************************************************************************)
(* Generic helpers: missing values, rounding, frames.                      *)
(***************************************************************************)
NaN == -99999

IsNaN(x) == x = NaN

\* Python comparisons: false as soon as one side is NaN.
Ge(a, b) == ~IsNaN(a) /\ ~IsNaN(b) /\ a >= b
Gt(a, b) == ~IsNaN(a) /\ ~IsNaN(b) /\ a > b
Le(a, b) == ~IsNaN(a) /\ ~IsNaN(b) /\ a =< b
Lt(a, b) == ~IsNaN(a) /\ ~IsNaN(b) /\ a < b

\* np.round of the non-negative quotient n/d to an integer (half to even).
RoundDiv(n, d) ==
    LET q == n \div d
        r2 == 2 * (n % d)
    IN  IF r2 < d THEN q
        ELSE IF r2 > d THEN q + 1
        ELSE IF q % 2 = 0 THEN q ELSE q + 1

Range(s) == {s[i] : i \in 1..Len(s)}

\* Position of x in the sequence s (0 when absent); ranks of sort keys.
IndexOf(s, x) == IF x \in Range(s) THEN CHOOSE i \in 1..Len(s) : s[i] = x ELSE 0

\* Lexicographic order on tuples of integers of one length.
TupleLt(a, b) ==
    \E i \in 1..Len(a) : a[i] < b[i] /\ \A j \in 1..(i - 1) : a[j] = b[j]

\* DataFrame.sort_values on several columns: the positions of a frame in the
\* order of their sort keys (keys[i] is the tuple of row i, ascending), rows
\* of equal keys in their original order (the sort is stable).
SortedPositions(keys) ==
    LET ins[i \in 0..Len(keys)] ==
            IF i = 0 THEN <<>>
            ELSE LET prev == ins[i - 1]
                     k == Cardinality({j \in 1..Len(prev) :
                                          ~TupleLt(keys[i], keys[prev[j]])})
                 IN  SubSeq(prev, 1, k) \o <<i>> \o SubSeq(prev, k + 1, Len(prev))
    IN  ins[Len(keys)]

\* Python's order on the strings used as sort keys (geocodes, parameter ids,
\* severity tokens): the position in this lexicographically sorted list.
SortedStrings ==
    << "34", "61", "AT", "BT", "CO", "NE", "PR", "PR_12H", "PR_12H.EXTREMA",
       "PR_12H.SEVERA", "PR_12H.UNIFORME", "PR_1H", "PR_1H.EXTREMA",
       "PR_1H.SEVERA", "PR_1H.UNIFORME", "VI",
       "amarillo", "naranja", "rojo", "verde" >>

StrRank(a) == IndexOf(SortedStrings, a)

(***************************************************************************)
(* Parameters (event_data_commons.MAPPING_PARAMETER_ID).                   *)
(***************************************************************************)
\* The keys of MAPPING_PARAMETERS in dictionary order.
ALLOWED_PARAMETER_ID ==
    << "BT", "AT", "PR", "PR_1H", "PR_12H",
       "PR_1H.UNIFORME", "PR_12H.UNIFORME", "PR_1H.SEVERA", "PR_12H.SEVERA",
       "PR_1H.EXTREMA", "PR_12H.EXTREMA", "NE", "VI" >>

MAPPING_PARAMETER_ID ==
    [p \in Range(ALLOWED_PARAMETER_ID) |->
        CASE p = "BT" -> "minimum_temperature"
          [] p = "AT" -> "maximum_temperature"
          [] p = "PR" -> "precipitation"
          [] p = "PR_1H" -> "precipitation_1h"
          [] p = "PR_12H" -> "precipitation_12h"
          [] p = "PR_1H.UNIFORME" -> "uniform_precipitation_1h"
          [] p = "PR_12H.UNIFORME" -> "uniform_precipitation_12h"
          [] p = "PR_1H.SEVERA" -> "severe_precipitation_1h"
          [] p = "PR_12H.SEVERA" -> "severe_precipitation_12h"
          [] p = "PR_1H.EXTREMA" -> "extreme_precipitation_1h"
          [] p = "PR_12H.EXTREMA" -> "extreme_precipitation_12h"
          [] p = "NE" -> "snowfall_24h"
          [] p = "VI" -> "wind_speed"]

\* The value columns of __FIELDS_COMBINED_RESULTS__ (each has a _severity twin).
ValueColumns ==
    { "minimum_temperature", "maximum_temperature",
      "uniform_precipitation_1h", "uniform_precipitation_12h",
      "severe_precipitation_1h", "severe_precipitation_12h",
      "extreme_precipitation_1h", "extreme_precipitation_12h",
      "snowfall_24h", "wind_speed" }

\* The families of threshold columns (<family>_yellow/orange/red_warning).
ThresholdFamilies ==
    { "maximum_temperature", "minimum_temperature", "wind_speed",
      "precipitation_12h", "precipitation_1h", "snowfall_24h" }

MAPPING_SEVERITY_VALUE ==
    [t \in {"verde", "amarillo", "naranja", "rojo"} |->
        CASE t = "verde" -> 0
          [] t = "amarillo" -> 1
          [] t = "naranja" -> 2
          [] t = "rojo" -> 3]

(***************************************************************************)
(* Severity Classifier: EventDataProcessor.__evaluate_observed_severity__. *)
(* A threshold triple is a record [yellow, orange, red].                   *)
(***************************************************************************)
\* Mutant: the red test of the minimum-temperature block made strict.
DescendingSeverityStrictRed(v, t) ==
    IF Le(v, t.yellow) /\ Gt(v, t.orange) THEN 1
    ELSE IF Le(v, t.orange) /\ Gt(v, t.red) THEN 2
    ELSE IF Lt(v, t.red) THEN 3
    ELSE 0

\* The minimum-temperature block: lower values are more severe.
DescendingSeverity(v, t) ==
    IF Le(v, t.yellow) /\ Gt(v, t.orange) THEN 1
    ELSE IF Le(v, t.orange) /\ Gt(v, t.red) THEN 2
    ELSE IF Le(v, t.red) THEN 3
    ELSE 0

\* Mutant: the yellow test made strict.
AscendingSeverityStrictYellow(v, t) ==
    IF Gt(v, t.yellow) /\ Lt(v, t.orange) THEN 1
    ELSE IF Ge(v, t.orange) /\ Lt(v, t.red) THEN 2
    ELSE IF Ge(v, t.red) THEN 3
    ELSE 0

\* Mutant: the red test copied from the minimum-temperature block.
AscendingSeverityRedReversed(v, t) ==
    IF Ge(v, t.yellow) /\ Lt(v, t.orange) THEN 1
    ELSE IF Ge(v, t.orange) /\ Lt(v, t.red) THEN 2
    ELSE IF Le(v, t.red) THEN 3
    ELSE 0

\* The block repeated for the nine other columns: higher values are more severe.
AscendingSeverity(v, t) ==
    IF Ge(v, t.yellow) /\ Lt(v, t.orange) THEN 1
    ELSE IF Ge(v, t.orange) /\ Lt(v, t.red) THEN 2
    ELSE IF Ge(v, t.red) THEN 3
    ELSE 0

\* The threshold family each value column is compared with.
\* Mutant: the half-day columns classified with the hourly thresholds.
ThresholdFamilyHourly(col) ==
    CASE col = "minimum_temperature" -> "minimum_temperature"
      [] col = "maximum_temperature" -> "maximum_temperature"
      [] col = "snowfall_24h" -> "snowfall_24h"
      [] col = "wind_speed" -> "wind_speed"
      [] OTHER -> "precipitation_1h"

ThresholdFamily(col) ==
    CASE col = "minimum_temperature" -> "minimum_temperature"
      [] col = "maximum_temperature" -> "maximum_temperature"
      [] col = "uniform_precipitation_1h" -> "precipitation_1h"
      [] col = "severe_precipitation_1h" -> "precipitation_1h"
      [] col = "extreme_precipitation_1h" -> "precipitation_1h"
      [] col = "uniform_precipitation_12h" -> "precipitation_12h"
      [] col = "severe_precipitation_12h" -> "precipitation_12h"
      [] col = "extreme_precipitation_12h" -> "precipitation_12h"
      [] col = "snowfall_24h" -> "snowfall_24h"
      [] col = "wind_speed" -> "wind_speed"

\* The <col>_severity computed for one merged row (values val, thresholds thr).
ObservedSeverity(col, val, thr) ==
    IF col = "minimum_temperature"
    THEN DescendingSeverity(val[col], thr[ThresholdFamily(col)])
    ELSE AscendingSeverity(val[col], thr[ThresholdFamily(col)])

\* pd.merge(observations, thresholds, on="geocode") (an inner join) followed by
\* the ten severity columns; the threshold columns are not kept.
RECURSIVE ClassifiedRows(_, _)
ClassifiedRows(obs, thrs) ==
    IF obs = <<>> THEN <<>>
    ELSE LET o == Head(obs)
             matching == SelectSeq(thrs, LAMBDA t : t.geocode = o.geocode)
         IN  [k \in 1..Len(matching) |->
                 [o EXCEPT !.sev = [c \in ValueColumns |->
                                       ObservedSeverity(c, o.val, matching[k].thr)]]]
             \o ClassifiedRows(Tail(obs), thrs)

EvaluateObservedSeverity ==
    /\ pc = "evaluate"
    /\ observed' = ClassifiedRows(observed, thresholds)
    /\ pc' = "extend"
    /\ UNCHANGED <<thresholds, geocodes, warnings, extended, prepared, consVars, locVars,
                   runVars, snow_level>>

(***************************************************************************)
(* Observation rows as __estimate_missing_observations__ and               *)
(* __geolocate_observed_data__ leave them: the derived estimates are       *)
(* functions of the day's precipitation total, the snowfall estimate is 0  *)
(* or the rounded total, and the severity columns are still empty.         *)
(***************************************************************************)
\* Shares of the daily total, in percent ({1: 0.33, 12: 0.75}, {1: 0.75, 12: 1.00}).
SEVERE_PRECIPITATION_BY_TIMEFRAME == [h1 |-> 33, h12 |-> 75]
EXTREME_PRECIPITATION_BY_TIMEFRAME == [h1 |-> 75, h12 |-> 100]

\* Mutant: the precipitation estimates kept on a day of snow.
EstimatedValuesRainKept(tmin, tmax, prec, racha, snows) ==
    [c \in ValueColumns |->
        CASE c = "minimum_temperature" -> tmin
          [] c = "maximum_temperature" -> tmax
          [] c = "uniform_precipitation_1h" -> RoundDiv(prec, 24)
          [] c = "severe_precipitation_1h" -> RoundDiv(prec * 33, 100)
          [] c = "extreme_precipitation_1h" -> RoundDiv(prec * 75, 100)
          [] c = "uniform_precipitation_12h" -> RoundDiv(prec * 12, 24)
          [] c = "severe_precipitation_12h" -> RoundDiv(prec * 75, 100)
          [] c = "extreme_precipitation_12h" -> prec
          [] c = "snowfall_24h" -> IF snows /\ Gt(prec, 0) THEN 10 * RoundDiv(prec, 10) ELSE 0
          [] c = "wind_speed" -> IF IsNaN(racha) THEN NaN ELSE RoundDiv(racha * 36, 10)]

\* The ten value columns from the raw readings: tmin, tmax (tenths of a degree),
\* prec (tenths of mm), racha (tenths of m/s), and snows: whether
\* __estimate_snowfall_value__ found snow for the row.
EstimatedValues(tmin, tmax, prec, racha, snows) ==
    LET snowfall == IF snows /\ Gt(prec, 0) THEN 10 * RoundDiv(prec, 10) ELSE 0
        Share(num, den) ==
            IF snowfall > 0 THEN 0
            ELSE IF IsNaN(prec) THEN NaN
            ELSE RoundDiv(prec * num, den)
    IN  [c \in ValueColumns |->
            CASE c = "minimum_temperature" -> tmin
              [] c = "maximum_temperature" -> tmax
              [] c = "uniform_precipitation_1h" -> Share(1, 24)
              [] c = "severe_precipitation_1h" ->
                    Share(SEVERE_PRECIPITATION_BY_TIMEFRAME.h1, 100)
              [] c = "extreme_precipitation_1h" ->
                    Share(EXTREME_PRECIPITATION_BY_TIMEFRAME.h1, 100)
              [] c = "uniform_precipitation_12h" -> Share(12, 24)
              [] c = "severe_precipitation_12h" ->
                    Share(SEVERE_PRECIPITATION_BY_TIMEFRAME.h12, 100)
              [] c = "extreme_precipitation_12h" ->
                    Share(EXTREME_PRECIPITATION_BY_TIMEFRAME.h12, 100)
              [] c = "snowfall_24h" -> snowfall
              [] c = "wind_speed" ->
                    IF IsNaN(racha) THEN NaN ELSE RoundDiv(racha * 36, 10)]

\* A row of the observed frame before classification.
ObservedRow(date, idema, geocode, val) ==
    [date |-> date, idema |-> idema, geocode |-> geocode, val |-> val,
     sev |-> [c \in ValueColumns |-> NaN]]

(***************************************************************************)
(* Bounded inputs of the classifier.                                       *)
(***************************************************************************)
\* Readings: temperatures (tenths of a degree), gusts (tenths of m/s), daily
\* precipitation totals (tenths of mm) of dry, rainy and snowy days.
TempVals == {-150, -120, -100, -50, -30, NaN}
RachaVals == {194, 250, 264, 334, NaN}
PrecVals == {0, 200, 400, 800, 1600, NaN}
SnowPrecVals == {12, 20, 50, 200}

\* The boundaries a threshold row may carry for each family.
ThresholdVals(family) ==
    CASE family = "minimum_temperature" -> {-150, -100, -50}
      [] family = "maximum_temperature" -> {-150, -100, -50}
      [] family = "wind_speed" -> {700, 900, 1200}
      [] family = "precipitation_1h" -> {150, 300, 600}
      [] family = "precipitation_12h" -> {400, 800, 1200}
      [] family = "snowfall_24h" -> {20, 50, 200}

\* A threshold cell left empty in the thresholds file (to_numeric coerces to NaN).
UndefinedThreshold == [yellow |-> NaN, orange |-> NaN, red |-> NaN]

\* The value columns of a station-day on which only the sensor behind col reports.
RowValues(col) ==
    CASE col = "minimum_temperature" ->
            {EstimatedValues(t, NaN, NaN, NaN, FALSE) : t \in TempVals}
      [] col = "maximum_temperature" ->
            {EstimatedValues(NaN, t, NaN, NaN, FALSE) : t \in TempVals}
      [] col = "wind_speed" ->
            {EstimatedValues(NaN, NaN, NaN, w, FALSE) : w \in RachaVals}
      [] col = "snowfall_24h" ->
            {EstimatedValues(NaN, NaN, p, NaN, TRUE) : p \in SnowPrecVals}
      [] OTHER ->
            {EstimatedValues(NaN, NaN, p, NaN, FALSE) : p \in PrecVals}

\* Stations classified against one threshold row.
ClassStations == <<"1212E", "1249X">>

\* The region of the second station: that of the threshold row, or one the
\* thresholds file has no row for.
ClassGeocodes == {"34", "61"}

InitClass ==
    /\ NoRun
    /\ pc = "evaluate"
    /\ \E col \in ValueColumns :
         /\ \E y, o, r \in ThresholdVals(ThresholdFamily(col)) :
              thresholds =
                << [geocode |-> "34",
                    thr |-> [f \in ThresholdFamilies |->
                                IF f = ThresholdFamily(col)
                                THEN [yellow |-> y, orange |-> o, red |-> r]
                                ELSE UndefinedThreshold]] >>
         /\ \E vals \in [1..Len(ClassStations) -> RowValues(col)] :
              \E g \in ClassGeocodes :
                 observed = [i \in 1..Len(ClassStations) |->
                                ObservedRow(1, ClassStations[i],
                                            IF i = 1 THEN "34" ELSE g, vals[i])]
    /\ geocodes = <<>>
    /\ warnings = <<>>
    /\ extended = <<>>
    /\ prepared = <<>>
    /\ caps = 0
    /\ capFiles = <<>>
    /\ stations = <<>>
    /\ stat = <<>>
    /\ capsDf = <<>>
    /\ expandedDf = <<>>
    /\ warningsFile = <<>>

NextClass == EvaluateObservedSeverity

SpecClass == InitClass /\ [][NextClass]_vars

(***************************************************************************)
(* Properties of the classifier.                                           *)
(***************************************************************************)
AscendingColumns == ValueColumns \ {"minimum_temperature"}

Classified == pc \notin {"evaluate"}

\* The threshold triple the run holds for a geocode and a value column.
TriplesOf(geocode, col) ==
    {thresholds[k].thr[ThresholdFamily(col)] :
        k \in {j \in 1..Len(thresholds) : thresholds[j].geocode = geocode}}

Defined(t) == ~IsNaN(t.yellow) /\ ~IsNaN(t.orange) /\ ~IsNaN(t.red)
OrderedAscending(t) == Defined(t) /\ t.yellow =< t.orange /\ t.orange =< t.red
OrderedDescending(t) == Defined(t) /\ t.yellow >= t.orange /\ t.orange >= t.red

\* C5: for an ascending column and boundaries y <= o <= r, the severity is 1
\* exactly when y <= value < o, 2 exactly when o <= value < r, 3 exactly when
\* value >= r, and 0 otherwise.
C5_AscendingRule ==
    Classified =>
        \A i \in 1..Len(observed) : \A c \in AscendingColumns :
            \A t \in TriplesOf(observed[i].geocode, c) :
                LET v == observed[i].val[c]
                    s == observed[i].sev[c]
                    num == ~IsNaN(v)
                IN  OrderedAscending(t) =>
                        /\ s \in 0..3
                        /\ (s = 1) <=> (num /\ t.yellow =< v /\ v < t.orange)
                        /\ (s = 2) <=> (num /\ t.orange =< v /\ v < t.red)
                        /\ (s = 3) <=> (num /\ v >= t.red)

\* Scenario B: wind speed 95 km/h against 70/90/120 is classified 2.
C5_Witness ==
    /\ Classified
    /\ \E i \in 1..Len(observed) :
         /\ observed[i].val["wind_speed"] = 950
         /\ observed[i].sev["wind_speed"] = 2
         /\ [yellow |-> 700, orange |-> 900, red |-> 1200]
                \in TriplesOf(observed[i].geocode, "wind_speed")

\* C6: for minimum temperature and boundaries y >= o >= r, the severity is 1
\* exactly when y >= value > o, 2 exactly when o >= value > r, 3 exactly when
\* value <= r, and 0 otherwise.
C6_DescendingRule ==
    Classified =>
        \A i \in 1..Len(observed) :
            \A t \in TriplesOf(observed[i].geocode, "minimum_temperature") :
                LET v == observed[i].val["minimum_temperature"]
                    s == observed[i].sev["minimum_temperature"]
                    num == ~IsNaN(v)
                IN  OrderedDescending(t) =>
                        /\ s \in 0..3
                        /\ (s = 1) <=> (num /\ t.yellow >= v /\ v > t.orange)
                        /\ (s = 2) <=> (num /\ t.orange >= v /\ v > t.red)
                        /\ (s = 3) <=> (num /\ v =< t.red)

\* Scenario C: against -5/-10/-15 a minimum of -12 is classified 2, -3 is 0.
C6_Witness ==
    /\ Classified
    /\ \E i, j \in 1..Len(observed) :
         /\ observed[i].val["minimum_temperature"] = -120
         /\ observed[i].sev["minimum_temperature"] = 2
         /\ observed[j].val["minimum_temperature"] = -30
         /\ observed[j].sev["minimum_temperature"] = 0
         /\ observed[i].geocode = observed[j].geocode
         /\ [yellow |-> -50, orange |-> -100, red |-> -150]
                \in TriplesOf(observed[i].geocode, "minimum_temperature")

\* C7: under one correctly ordered threshold row the severity never decreases
\* as the value grows (ascending columns) or falls (minimum temperature).
C7_Monotone ==
    Classified =>
        \A i, j \in 1..Len(observed) : \A c \in ValueColumns :
            \A t \in TriplesOf(observed[i].geocode, c) :
                LET v1 == observed[i].val[c]
                    v2 == observed[j].val[c]
                IN  ( /\ observed[i].geocode = observed[j].geocode
                      /\ ~IsNaN(v1) /\ ~IsNaN(v2)
                      /\ IF c = "minimum_temperature"
                         THEN OrderedDescending(t) /\ v1 >= v2
                         ELSE OrderedAscending(t) /\ v1 =< v2 )
                    => observed[i].sev[c] =< observed[j].sev[c]

\* Two stations under one strictly ordered row, the second with the larger value
\* and the strictly higher severity.
C7_Witness ==
    /\ Classified
    /\ \E i, j \in 1..Len(observed) : \E c \in AscendingColumns :
         \E t \in TriplesOf(observed[i].geocode, c) :
            /\ OrderedAscending(t) /\ t.yellow < t.orange /\ t.orange < t.red
            /\ Lt(observed[i].val[c], observed[j].val[c])
            /\ observed[i].sev[c] >= 1
            /\ observed[i].sev[c] < observed[j].sev[c]

\* C14 as stated: an observation whose region has no threshold row, or whose
\* threshold for the parameter is undefined, makes the classification fail.  A
\* classification that has finished therefore kept a row for every station and
\* graded no column against an undefined threshold.
C14_MissingThresholdFails ==
    pc = "extend" =>
        /\ \A k \in DOMAIN ClassStations :
              \E i \in DOMAIN observed : observed[i].idema = ClassStations[k]
        /\ \A i \in DOMAIN observed : \A c \in ValueColumns :
              \A t \in TriplesOf(observed[i].geocode, c) : Defined(t)

\* What the code does instead: the station of a region without threshold row is
\* gone after the classification, with no error.
SilentlyDropped ==
    /\ pc = "extend"
    /\ \E k \in DOMAIN ClassStations :
          \A i \in DOMAIN observed : observed[i].idema # ClassStations[k]

\* What the code does instead: 160 mm in twelve hours are graded 0 because the
\* twelve-hour threshold cells of the region are empty.
GradedZeroWithoutThreshold ==
    /\ pc = "extend"
    /\ \E i \in DOMAIN observed :
          /\ observed[i].val["extreme_precipitation_12h"] = 1600
          /\ observed[i].sev["extreme_precipitation_12h"] = 0
          /\ \A t \in TriplesOf(observed[i].geocode, "extreme_precipitation_12h") :
                ~Defined(t)

\* C15 as stated: no severity is computed from a threshold row whose boundaries
\* are not ordered in the direction of the parameter (the run has no signal
\* for such a row: a finished classification used ordered rows only).
C15_DisorderedRowRejected ==
    pc = "extend" =>
        \A i \in DOMAIN observed : \A c \in ValueColumns :
           \A t \in TriplesOf(observed[i].geocode, c) :
              Defined(t) =>
                 IF c = "minimum_temperature" THEN OrderedDescending(t)
                 ELSE OrderedAscending(t)

\* What the code does instead: wind of 95 km/h against yellow 120, orange 90,
\* red 70 is graded 3 and nothing is reported.
GradedFromDisorderedRow ==
    /\ pc = "extend"
    /\ \E i \in DOMAIN observed :
          /\ observed[i].val["wind_speed"] = 950
          /\ observed[i].sev["wind_speed"] = 3
          /\ [yellow |-> 1200, orange |-> 900, red |-> 700]
                 \in TriplesOf(observed[i].geocode, "wind_speed")

(***************************************************************************)
(* Bulletin Consolidator: event_data_commons.caps_to_warnings.             *)
(*                                                                         *)
(* A bulletin is the content of one CAP XML file: sent, effective and      *)
(* expires are ISO timestamps [day, hour, offset] (local time and its UTC  *)
(* offset in hours), nivel is the "AEMET-Meteoalerta nivel" parameter,     *)
(* event_code the first part of cap:eventCode, parametro the description   *)
(* and value the digits of "AEMET-Meteoalerta parametro", polygon the text *)
(* of cap:polygon ("None" when the element is empty), elements the         *)
(* elements the file has among those whose text the parser reads.          *)
(***************************************************************************)
MaxCaps == 3

\* The elements read with find(...).text, which raises AttributeError when the
\* element is not in the file.
CapElements == {"identifier", "sent", "effective", "expires", "eventCode"}

Stamp(d, h) == [day |-> d, hour |-> h, offset |-> 1]

\* Bounded inputs: when bulletins are sent and the periods they cover.
SentStamps == {Stamp(1, 8), Stamp(1, 10)}
Afternoon == <<Stamp(1, 12), Stamp(1, 23)>>
WholeDay == <<Stamp(1, 0), Stamp(1, 23)>>
LongSpell == <<Stamp(1, 12), Stamp(3, 12)>>
Reversed == <<Stamp(2, 12), Stamp(1, 23)>>

\* Geocode, event code, parameter description, validity.
BulletinShapes ==
    { <<"61", "AT", "Temperaturas maximas", Afternoon>>,
      <<"61", "AT", "Temperaturas maximas", WholeDay>>,
      <<"34", "AT", "Temperaturas maximas", Afternoon>>,
      <<"61", "PR", "una hora", Afternoon>> }

Bulletin(sent, nivel, shape) ==
    [sent |-> sent, effective |-> shape[4][1], expires |-> shape[4][2],
     nivel |-> nivel, event_code |-> shape[2], parametro |-> shape[3],
     value |-> 36, geocode |-> shape[1], polygon |-> "38.32,-0.99 38.33,-0.92",
     elements |-> CapElements]

Bulletins ==
    {Bulletin(s, n, k) :
        s \in SentStamps, n \in {"amarillo", "naranja", "rojo"}, k \in BulletinShapes}
    \cup {Bulletin(Stamp(1, 10), "verde", <<"61", "AT", "Temperaturas maximas", Afternoon>>),
          Bulletin(Stamp(1, 10), "rojo", <<"61", "CO", "Oleaje", Afternoon>>),
          [Bulletin(Stamp(1, 10), "rojo", <<"61", "AT", "Temperaturas maximas", Afternoon>>)
              EXCEPT !.polygon = "None"],
          Bulletin(Stamp(1, 10), "None", <<"61", "AT", "Temperaturas maximas", Afternoon>>),
          [Bulletin(Stamp(1, 10), "rojo", <<"61", "AT", "Temperaturas maximas", Afternoon>>)
              EXCEPT !.value = 38],
          Bulletin(Stamp(1, 10), "amarillo", <<"34", "AT", "Temperaturas maximas", LongSpell>>),
          Bulletin(Stamp(1, 10), "naranja", <<"61", "AT", "Temperaturas maximas", Reversed>>),
          [Bulletin(Stamp(1, 10), "rojo", <<"61", "AT", "Temperaturas maximas", Afternoon>>)
              EXCEPT !.elements = CapElements \ {"effective"}]}

\* pd.to_datetime(..., utc=True): hours since the start of day 0, in UTC.
ToDatetimeUtc(ts) == ts.day * 24 + ts.hour - ts.offset

\* .dt.date of a UTC instant.
DateOf(instant) == instant \div 24

\* The row __extract_caps_data__ appends for a bulletin (identifier id).
CapRow(id, b) ==
    [id |-> id, sent |-> b.sent, effective |-> b.effective, expires |-> b.expires,
     severity |-> b.nivel,
     param_id |-> IF b.event_code = "PR" /\ b.parametro = "una hora" THEN "PR_1H"
                  ELSE IF b.event_code = "PR" /\ b.parametro = "12 horas" THEN "PR_12H"
                  ELSE b.event_code,
     param_value |-> b.value, geocode |-> b.geocode, polygon |-> b.polygon]

\* Mutant: every known level gives a row.
EmittedWithGreen(nivel) == nivel \in DOMAIN MAPPING_SEVERITY_VALUE

\* The level gives a row: a known token of ordinal greater than 0.
Emitted(nivel) ==
    /\ nivel \in DOMAIN MAPPING_SEVERITY_VALUE
    /\ MAPPING_SEVERITY_VALUE[nivel] > 0

\* One turn of the loop over the CAP files.  A file without one of the elements
\* read raises AttributeError, which the handler logs and raises again: the
\* function ends there.  Otherwise a row is added when the level gives one.
ExtractCap(b) ==
    /\ pc = "extract"
    /\ caps < MaxCaps
    /\ caps' = caps + 1
    /\ capFiles' = Append(capFiles, b)
    /\ IF CapElements \subseteq b.elements
       THEN /\ capsDf' = IF Emitted(b.nivel)
                         THEN Append(capsDf, CapRow(caps + 1, b))
                         ELSE capsDf
            /\ pc' = pc
       ELSE /\ pc' = "raised"
            /\ capsDf' = capsDf
    /\ UNCHANGED <<expandedDf, warningsFile, procVars, locVars, runVars, snow_level>>

\* The loop ends: return df.dropna(), the rows without a None.
ExtractCapsData ==
    /\ pc = "extract"
    /\ capsDf' = SelectSeq(capsDf, LAMBDA r : r.geocode # "None" /\ r.polygon # "None")
    /\ pc' = "transform"
    /\ UNCHANGED <<capFiles, caps, expandedDf, warningsFile, procVars, locVars,
                   runVars, snow_level>>

\* The rows one raw row expands to: one per day from effective up to expires, and
\* a last row carrying the day reached and the row's expires.
RECURSIVE ExpandDays(_, _, _)
\* Mutant: the day of expiry left out.
ExpandDaysExclusive(row, effective, expires) ==
    [k \in 1..(expires - effective) |->
        [row EXCEPT !.effective = effective + k - 1, !.expires = effective + k - 1]]

\* The while loop over the days of a row and the row appended after it.
ExpandDays(row, effective, expires) ==
    IF effective < expires
    THEN <<[row EXCEPT !.effective = effective, !.expires = effective]>>
         \o ExpandDays(row, effective + 1, expires)
    ELSE <<[row EXCEPT !.effective = effective, !.expires = expires]>>

\* The conversions of the date columns of a row.
ParsedRow(r) ==
    [r EXCEPT !.sent = ToDatetimeUtc(r.sent),
              !.effective = DateOf(ToDatetimeUtc(r.effective)),
              !.expires = DateOf(ToDatetimeUtc(r.expires))]

RECURSIVE ExpandRows(_)
ExpandRows(df) ==
    IF df = <<>> THEN <<>>
    ELSE ExpandDays(Head(df), Head(df).effective, Head(df).expires)
         \o ExpandRows(Tail(df))

TransformCapsWarnings(df) ==
    LET allowed == SelectSeq(df, LAMBDA r : r.param_id \in Range(ALLOWED_PARAMETER_ID))
    IN  ExpandRows([i \in 1..Len(allowed) |-> ParsedRow(allowed[i])])

TransformCaps ==
    /\ pc = "transform"
    /\ expandedDf' = TransformCapsWarnings(capsDf)
    /\ pc' = "clean"
    /\ UNCHANGED <<capFiles, caps, capsDf, warningsFile, procVars, locVars,
                   runVars, snow_level>>

\* Mutant: the day left out of the grouping columns.
GroupKeyWithoutDay(r) == <<r.geocode, r.param_id>>

\* The columns the warnings are grouped by.
GroupKey(r) == <<r.geocode, r.param_id, r.effective>>

\* The sort key of ascending=[True, True, True, False, False] on geocode,
\* param_id, effective, severity (the token, a string) and sent.
CleanSortKey(r) ==
    <<StrRank(r.geocode), StrRank(r.param_id), r.effective,
      0 - StrRank(r.severity), 0 - r.sent>>

\* Mutant: the most recent bulletin first, whatever its severity.
RecentSevereKey(r) == <<0 - r.sent, 0 - StrRank(r.severity)>>

\* The sort key of sort_values(by=["severity", "sent"], ascending=[False, False])
\* inside a group.
SevereRecentKey(r) == <<0 - StrRank(r.severity), 0 - r.sent>>

\* A frame in the order of the sort keys of its rows.
SortedFrame(df, keys) ==
    LET pos == SortedPositions(keys) IN [i \in 1..Len(df) |-> df[pos[i]]]

\* FIELDS_WARNING_DATA: the columns kept (sent and expires are not).
WarningFields(r) ==
    [id |-> r.id, effective |-> r.effective, severity |-> r.severity,
     param_id |-> r.param_id, param_value |-> r.param_value, geocode |-> r.geocode,
     polygon |-> r.polygon]

\* The first row of every group, the groups in the order of their keys.
CleanCapsFiles(df) ==
    LET sorted == SortedFrame(df, [i \in 1..Len(df) |-> CleanSortKey(df[i])])
        firsts == SelectSeq([i \in 1..Len(sorted) |-> i], LAMBDA i :
                      \A j \in 1..(i - 1) : GroupKey(sorted[j]) # GroupKey(sorted[i]))
        Group(i) == SelectSeq(sorted, LAMBDA r : GroupKey(r) = GroupKey(sorted[i]))
        First(g) == Head(SortedFrame(g, [i \in 1..Len(g) |-> SevereRecentKey(g[i])]))
    IN  [n \in 1..Len(firsts) |-> WarningFields(First(Group(firsts[n])))]

\* The columns sort_values is given in __clean_caps_files__.
CleanColumns == {"geocode", "param_id", "effective", "severity", "sent"}

\* __clean_caps_files__ on any frame: sort_values raises KeyError when the frame
\* lacks one of the columns it sorts by (a frame without rows has no column).
CleanCapsFilesOn(df) ==
    IF df = <<>> \/ \E i \in DOMAIN df : ~(CleanColumns \subseteq DOMAIN df[i])
    THEN [raised |-> "KeyError", frame |-> <<>>]
    ELSE [raised |-> "None", frame |-> CleanCapsFiles(df)]

\* An empty frame has no columns to sort by: the run ends with a KeyError.
CleanCaps ==
    /\ pc = "clean"
    /\ IF CleanCapsFilesOn(expandedDf).raised # "None"
       THEN pc' = "failed" /\ UNCHANGED warningsFile
       ELSE pc' = "stored" /\ warningsFile' = CleanCapsFilesOn(expandedDf).frame
    /\ UNCHANGED <<capFiles, caps, capsDf, expandedDf, procVars, locVars,
                   runVars, snow_level>>

InitCons ==
    /\ NoRun
    /\ pc = "extract"
    /\ caps = 0
    /\ capFiles = <<>>
    /\ stations = <<>>
    /\ stat = <<>>
    /\ capsDf = <<>>
    /\ expandedDf = <<>>
    /\ warningsFile = <<>>
    /\ observed = <<>>
    /\ thresholds = <<>>
    /\ geocodes = <<>>
    /\ warnings = <<>>
    /\ extended = <<>>
    /\ prepared = <<>>

NextCons ==
    \/ \E b \in Bulletins : ExtractCap(b)
    \/ ExtractCapsData
    \/ TransformCaps
    \/ CleanCaps

SpecCons == InitCons /\ [][NextCons]_vars

(***************************************************************************)
(* Properties of the consolidator.                                         *)
(***************************************************************************)
WarningKey(r) == <<r.geocode, r.param_id, r.effective>>

\* C1: the consolidated warnings hold exactly one row for each (geocode,
\* parameter, effective day) of the expanded rows, and no key twice.
C1_OneRowPerKey ==
    pc = "stored" =>
        /\ {WarningKey(w) : w \in Range(warningsFile)}
               = {WarningKey(x) : x \in Range(expandedDf)}
        /\ \A i, j \in 1..Len(warningsFile) :
               i # j => WarningKey(warningsFile[i]) # WarningKey(warningsFile[j])

\* Bulletins whose days overlap: more expanded rows than keys, several keys.
C1_Witness ==
    /\ pc = "stored"
    /\ Len(warningsFile) >= 2
    /\ Len(expandedDf) > Len(warningsFile)
    /\ \E i, j \in 1..Len(warningsFile) :
           /\ warningsFile[i].id = warningsFile[j].id
           /\ warningsFile[i].effective # warningsFile[j].effective

\* C2: the row kept for a key has the highest severity ordinal of the expanded
\* rows of that key and, among those of that severity, the latest sent instant.
C2_MostSevereMostRecent ==
    pc = "stored" =>
        \A i \in 1..Len(warningsFile) :
            \E k \in 1..Len(expandedDf) :
                LET w == warningsFile[i]
                    x == expandedDf[k]
                IN  /\ x.id = w.id
                    /\ WarningKey(x) = WarningKey(w)
                    /\ x.severity = w.severity
                    /\ \A n \in 1..Len(expandedDf) :
                         LET z == expandedDf[n]
                         IN  WarningKey(z) = WarningKey(w) =>
                               /\ MAPPING_SEVERITY_VALUE[z.severity]
                                      =< MAPPING_SEVERITY_VALUE[x.severity]
                               /\ z.severity = x.severity => z.sent =< x.sent

\* Scenario A with a reissue: amarillo sent at 10:00, naranja sent at 08:00 and
\* at 10:00 for one key; the naranja of 10:00 is kept.
C2_Witness ==
    /\ pc = "stored"
    /\ \E a, b, c \in 1..Len(expandedDf) : \E i \in 1..Len(warningsFile) :
         /\ WarningKey(expandedDf[a]) = <<"61", "AT", 1>>
         /\ WarningKey(expandedDf[b]) = <<"61", "AT", 1>>
         /\ WarningKey(expandedDf[c]) = <<"61", "AT", 1>>
         /\ expandedDf[a].severity = "amarillo"
         /\ expandedDf[a].sent = ToDatetimeUtc(Stamp(1, 10))
         /\ expandedDf[b].severity = "naranja"
         /\ expandedDf[b].sent = ToDatetimeUtc(Stamp(1, 8))
         /\ expandedDf[c].severity = "naranja"
         /\ expandedDf[c].sent = ToDatetimeUtc(Stamp(1, 10))
         /\ warningsFile[i].id = expandedDf[c].id
         /\ warningsFile[i].severity = "naranja"

(***************************************************************************)
(* Parameter Expander, Reconciliation Merger and Regional Aggregator:      *)
(* the steps of EventDataProcessor.prepare_event_data after the            *)
(* classification.  A prepared row keeps the columns of                    *)
(* __FIELDS_PROCESSED_DATA__ that carry a decision: date, geocode, region, *)
(* idema, param_id and the three severity/value pairs.                     *)
(***************************************************************************)
\* Mutant: the extreme estimate of the twelve-hour window not registered.
DerivedParametersShort(base) ==
    CASE base = "PR_1H" -> {"PR_1H.UNIFORME", "PR_1H.SEVERA", "PR_1H.EXTREMA"}
      [] base = "PR_12H" -> {"PR_12H.UNIFORME", "PR_12H.SEVERA"}

\* The registered ids that start with "PR_1H." and with "PR_12H.".
DerivedParameters(base) ==
    CASE base = "PR_1H" -> {"PR_1H.UNIFORME", "PR_1H.SEVERA", "PR_1H.EXTREMA"}
      [] base = "PR_12H" -> {"PR_12H.UNIFORME", "PR_12H.SEVERA", "PR_12H.EXTREMA"}

\* The orders in which a Python set of strings may be iterated.
IterationOrders(S) ==
    {o \in [1..Cardinality(S) -> S] : \A i, j \in 1..Cardinality(S) : i # j => o[i] # o[j]}

\* The copies of the rows of a base parameter, one batch per derived id.
RECURSIVE RepeatedRows(_, _)
RepeatedRows(rows, order) ==
    IF order = <<>> THEN <<>>
    ELSE [i \in 1..Len(rows) |-> [rows[i] EXCEPT !.param_id = Head(order)]]
         \o RepeatedRows(rows, Tail(order))

\* severity.map(MAPPING_SEVERITY_VALUE): the ordinal, NaN for an unknown token.
SeverityOrdinal(token) ==
    IF token \in DOMAIN MAPPING_SEVERITY_VALUE THEN MAPPING_SEVERITY_VALUE[token] ELSE NaN

ExtendedWarnings(df, order1h, order12h) ==
    LET mapped == [i \in 1..Len(df) |->
                      [df[i] EXCEPT !.severity = SeverityOrdinal(df[i].severity)]]
        precipitation_1h == SelectSeq(mapped, LAMBDA r : r.param_id = "PR_1H")
        precipitation_12h == SelectSeq(mapped, LAMBDA r : r.param_id = "PR_12H")
        all == mapped \o RepeatedRows(precipitation_1h, order1h)
                      \o RepeatedRows(precipitation_12h, order12h)
    IN  SelectSeq(all, LAMBDA r : r.param_id # "PR_1H" /\ r.param_id # "PR_12H")

ExtendWarningData ==
    /\ pc = "extend"
    /\ \E order1h \in IterationOrders(DerivedParameters("PR_1H")) :
         \E order12h \in IterationOrders(DerivedParameters("PR_12H")) :
            extended' = ExtendedWarnings(warnings, order1h, order12h)
    /\ pc' = "discretize"
    /\ UNCHANGED <<observed, thresholds, geocodes, warnings, prepared, consVars, locVars,
                   runVars, snow_level>>

\* The parameters a station row is discretized into, in dictionary order.
DiscretizedParameters ==
    SelectSeq(ALLOWED_PARAMETER_ID, LAMBDA p : p # "PR" /\ p # "PR_1H" /\ p # "PR_12H")

\* One row per observation and parameter: the rows of the first parameter, then
\* those of the second, ...
RECURSIVE Discretized(_, _)
Discretized(obs, params) ==
    IF params = <<>> THEN <<>>
    ELSE [i \in 1..Len(obs) |->
             [date |-> obs[i].date, idema |-> obs[i].idema, geocode |-> obs[i].geocode,
              param_id |-> Head(params),
              station_severity |-> obs[i].sev[MAPPING_PARAMETER_ID[Head(params)]],
              station_value |-> obs[i].val[MAPPING_PARAMETER_ID[Head(params)]]]]
         \o Discretized(obs, Tail(params))

\* The row of the prepared frame for a discretized row d and the warning columns
\* joined to it.
PreparedRow(d, severity, param_value) ==
    [date |-> d.date, geocode |-> d.geocode, region |-> "", idema |-> d.idema,
     param_id |-> d.param_id,
     predicted_severity |-> severity, predicted_value |-> param_value,
     region_severity |-> 0, region_value |-> NaN,
     observed_severity |-> d.station_severity, observed_value |-> d.station_value]

\* pd.merge(discretized, extended, how="left") on date = effective, geocode and
\* param_id: every discretized row, once per warning of its key, or once
\* with empty warning columns.
RECURSIVE MergedWithWarnings(_, _)
MergedWithWarnings(disc, ext) ==
    IF disc = <<>> THEN <<>>
    ELSE LET d == Head(disc)
             matching == SelectSeq(ext, LAMBDA w :
                             /\ w.effective = d.date
                             /\ w.geocode = d.geocode
                             /\ w.param_id = d.param_id)
         IN  (IF matching = <<>> THEN <<PreparedRow(d, NaN, NaN)>>
              ELSE [k \in 1..Len(matching) |->
                       PreparedRow(d, matching[k].severity, matching[k].param_value)])
             \o MergedWithWarnings(Tail(disc), ext)

DiscretizeObservedData ==
    /\ pc = "discretize"
    /\ prepared' = MergedWithWarnings(Discretized(observed, DiscretizedParameters), extended)
    /\ pc' = "complete"
    /\ UNCHANGED <<observed, thresholds, geocodes, warnings, extended, consVars, locVars,
                   runVars, snow_level>>

\* pd.merge(prepared, geocodes, how="left", on="geocode"): the region columns.
RECURSIVE CompletedRows(_, _)
CompletedRows(df, geos) ==
    IF df = <<>> THEN <<>>
    ELSE LET r == Head(df)
             matching == SelectSeq(geos, LAMBDA g : g.geocode = r.geocode)
         IN  (IF matching = <<>> THEN <<r>>
              ELSE [k \in 1..Len(matching) |-> [r EXCEPT !.region = matching[k].region]])
             \o CompletedRows(Tail(df), geos)

CompleteEmptyFields ==
    /\ pc = "complete"
    /\ prepared' = CompletedRows(prepared, geocodes)
    /\ pc' = "summarize"
    /\ UNCHANGED <<observed, thresholds, geocodes, warnings, extended, consVars, locVars,
                   runVars, snow_level>>

\* Mutant: the rows sorted by severity only.
SummarySortKeySeverity(r, valueAscending) ==
    << IF IsNaN(r.observed_severity) THEN 1 ELSE 0,
       IF IsNaN(r.observed_severity) THEN 0 ELSE 0 - r.observed_severity >>

\* Mutant: the value sorted descending whatever the parameter.
SummarySortKeyDescending(r, valueAscending) ==
    << IF IsNaN(r.observed_severity) THEN 1 ELSE 0,
       IF IsNaN(r.observed_severity) THEN 0 ELSE 0 - r.observed_severity,
       IF IsNaN(r.observed_value) THEN 1 ELSE 0,
       IF IsNaN(r.observed_value) THEN 0 ELSE 0 - r.observed_value >>

\* Sort key of sort_values(by=["observed_severity", "observed_value"]) with the
\* severity descending and the value ascending or descending; NaN sorts last.
SummarySortKey(r, valueAscending) ==
    << IF IsNaN(r.observed_severity) THEN 1 ELSE 0,
       IF IsNaN(r.observed_severity) THEN 0 ELSE 0 - r.observed_severity,
       IF IsNaN(r.observed_value) THEN 1 ELSE 0,
       IF IsNaN(r.observed_value) THEN 0
       ELSE IF valueAscending THEN r.observed_value ELSE 0 - r.observed_value >>

\* The columns the situations are grouped by.
SituationKey(r) == <<r.date, r.param_id, r.geocode>>

\* GroupBy "first": the first value of a column that is not NaN.
FirstValid(column) ==
    LET valid == SelectSeq(column, LAMBDA x : ~IsNaN(x))
    IN  IF valid = <<>> THEN NaN ELSE Head(valid)

\* sort_values then groupby(date, param_id, geocode).agg(first, first).
Situations(df, valueAscending) ==
    LET sorted == SortedFrame(df, [i \in 1..Len(df) |-> SummarySortKey(df[i], valueAscending)])
        firsts == SelectSeq([i \in 1..Len(sorted) |-> i], LAMBDA i :
                      \A j \in 1..(i - 1) : SituationKey(sorted[j]) # SituationKey(sorted[i]))
        Group(i) == SelectSeq(sorted, LAMBDA r : SituationKey(r) = SituationKey(sorted[i]))
    IN  [n \in 1..Len(firsts) |->
            LET g == Group(firsts[n])
            IN  [date |-> g[1].date, param_id |-> g[1].param_id, geocode |-> g[1].geocode,
                 region_severity |-> FirstValid([k \in 1..Len(g) |-> g[k].observed_severity]),
                 region_value |-> FirstValid([k \in 1..Len(g) |-> g[k].observed_value])]]

\* Mutant: the geocode left out of the merge columns.
MergeKeyWithoutGeocode(r) == <<r.date, r.param_id>>

\* The columns of on=[...] in the merge that attaches the situations.
MergeKey(r) == <<r.date, r.param_id, r.geocode>>

\* Mutant: the empty cells are kept.
FilledOrdinalKept(x) == x

\* fillna(0) then astype(int).
FilledOrdinal(x) == IF IsNaN(x) THEN 0 ELSE x

\* pd.merge(df, situations, how="left") and the final coercion of the severities.
RECURSIVE MergedWithSituations(_, _)
MergedWithSituations(df, situations) ==
    IF df = <<>> THEN <<>>
    ELSE LET r == Head(df)
             matching == SelectSeq(situations, LAMBDA t : MergeKey(t) = MergeKey(r))
             Row(sev, val) ==
                 [r EXCEPT !.predicted_severity = FilledOrdinal(r.predicted_severity),
                           !.region_severity = FilledOrdinal(sev),
                           !.region_value = val,
                           !.observed_severity = FilledOrdinal(r.observed_severity)]
         IN  (IF matching = <<>> THEN <<Row(NaN, NaN)>>
              ELSE [k \in 1..Len(matching) |->
                       Row(matching[k].region_severity, matching[k].region_value)])
             \o MergedWithSituations(Tail(df), situations)

SummarizedData(df) ==
    LET situations_desc == Situations(SelectSeq(df, LAMBDA r : r.param_id # "BT"), FALSE)
        situations_asc == Situations(SelectSeq(df, LAMBDA r : r.param_id = "BT"), TRUE)
    IN  MergedWithSituations(df, situations_desc \o situations_asc)

SummarizeObservedData ==
    /\ pc = "summarize"
    /\ prepared' = SummarizedData(prepared)
    /\ pc' = "done"
    /\ UNCHANGED <<observed, thresholds, geocodes, warnings, extended, consVars, locVars,
                   runVars, snow_level>>

(***************************************************************************)
(* Bounded inputs of prepare_event_data: the frames as they stand after    *)
(* __geolocate_observed_data__.                                            *)
(***************************************************************************)
\* Rows of the observations frame; bulletins behind the warnings file.
MaxObs == 3
MaxWeatherObs == 2
MaxBulletins == 2

\* Geolocated stations: three of region 34, one of region 61.
ProcStations ==
    << [idema |-> "1212E", geocode |-> "34"],
       [idema |-> "1249X", geocode |-> "34"],
       [idema |-> "1283U", geocode |-> "34"],
       [idema |-> "5402", geocode |-> "61"] >>

\* The observation file lists the days in order, the stations within a day.
ProcSlots ==
    << <<1, 1>>, <<1, 2>>, <<1, 3>>, <<1, 4>>, <<2, 1>>, <<2, 2>>, <<2, 3>>, <<2, 4>> >>

\* A station-day: a cold morning with a gale.
ColdReadings == {EstimatedValues(t, 20, 0, 264, FALSE) : t \in {-130, -110, -90}}

\* The same with either a gale or a stronger gale and rain.
ProcReadings ==
    {EstimatedValues(t, 20, w[2], w[1], FALSE) :
        t \in {-130, -110, -90}, w \in {<<264, 0>>, <<334, 400>>}}

\* The same with one fixed reading: rain on a cold, windy day.
RainyReadings == {EstimatedValues(-110, 20, 400, 334, FALSE)}

ObservedFrames(n, readings) ==
    UNION { LET slots == SelectSeq(ProcSlots, LAMBDA x : x \in S)
            IN  { [i \in 1..Len(slots) |->
                      ObservedRow(slots[i][1], ProcStations[slots[i][2]].idema,
                                  ProcStations[slots[i][2]].geocode, vals[i])] :
                  vals \in [1..Len(slots) -> readings] } :
            S \in {T \in SUBSET Range(ProcSlots) : Cardinality(T) = n} }

\* The threshold rows of the two regions.
Triple(y, o, r) == [yellow |-> y, orange |-> o, red |-> r]

ProcThresholds ==
    << [geocode |-> "34",
        thr |-> [f \in ThresholdFamilies |->
                    CASE f = "minimum_temperature" -> Triple(-50, -100, -150)
                      [] f = "maximum_temperature" -> Triple(340, 370, 400)
                      [] f = "wind_speed" -> Triple(700, 900, 1200)
                      [] f = "precipitation_1h" -> Triple(150, 300, 600)
                      [] f = "precipitation_12h" -> Triple(400, 800, 1200)
                      [] f = "snowfall_24h" -> Triple(20, 50, 200)]],
       [geocode |-> "61",
        thr |-> [f \in ThresholdFamilies |->
                    CASE f = "minimum_temperature" -> Triple(-10, -40, -120)
                      [] f = "maximum_temperature" -> Triple(380, 400, 440)
                      [] f = "wind_speed" -> Triple(800, 1000, 1300)
                      [] f = "precipitation_1h" -> Triple(150, 300, 600)
                      [] f = "precipitation_12h" -> Triple(400, 800, 1200)
                      [] f = "snowfall_24h" -> Triple(20, 50, 200)]] >>

ProcGeocodes ==
    << [geocode |-> "34", region |-> "Region 34"],
       [geocode |-> "61", region |-> "Region 61"] >>

ProcBulletins ==
    {Bulletin(Stamp(1, 8), n, k) :
        n \in {"amarillo", "rojo"},
        k \in { <<"34", "BT", "Temperaturas minimas", Afternoon>>,
                <<"34", "BT", "Temperaturas minimas", WholeDay>>,
                <<"61", "BT", "Temperaturas minimas", Afternoon>>,
                <<"34", "VI", "Rachas maximas", Afternoon>>,
                <<"61", "PR", "una hora", Afternoon>>,
                <<"61", "PR", "12 horas", WholeDay>> }}

\* The warnings file the consolidator stores for a list of bulletins, as
\* get_warnings reads it back.
StoredWarnings(bs) ==
    CleanCapsFiles(TransformCapsWarnings([i \in 1..Len(bs) |-> CapRow(i, bs[i])]))

WarningFrames(n) == {StoredWarnings(bs) : bs \in [1..n -> ProcBulletins]}

ColdSpell == <<Bulletin(Stamp(1, 8), "naranja",
                        <<"34", "BT", "Temperaturas minimas", Afternoon>>)>>

InitProc ==
    /\ NoRun
    /\ pc = "evaluate"
    /\ \/ /\ observed \in UNION {ObservedFrames(n, ColdReadings) : n \in 1..MaxObs}
          /\ warnings = StoredWarnings(ColdSpell)
       \/ /\ observed \in UNION {ObservedFrames(n, ProcReadings) : n \in 1..MaxWeatherObs}
          /\ warnings = StoredWarnings(ColdSpell)
       \/ /\ observed \in ObservedFrames(1, RainyReadings)
          /\ warnings \in UNION {WarningFrames(n) : n \in 1..MaxBulletins}
    /\ thresholds = ProcThresholds
    /\ geocodes = ProcGeocodes
    /\ extended = <<>>
    /\ prepared = <<>>
    /\ caps = 0
    /\ capFiles = <<>>
    /\ stations = <<>>
    /\ stat = <<>>
    /\ capsDf = <<>>
    /\ expandedDf = <<>>
    /\ warningsFile = <<>>

NextProc ==
    \/ EvaluateObservedSeverity
    \/ ExtendWarningData
    \/ DiscretizeObservedData
    \/ CompleteEmptyFields
    \/ SummarizeObservedData

SpecProc == InitProc /\ [][NextProc]_vars

(***************************************************************************)
(* Properties of the prepared frame (SpecProc).                            *)
(***************************************************************************)
Done == pc = "done"

\* Key of an analysis record and of an expanded warning.
RecordKey(r) == <<r.date, r.geocode, r.param_id>>
ForecastKey(w) == <<w.effective, w.geocode, w.param_id>>

\* The records of the station group of record r.
GroupOf(r) == {i \in DOMAIN prepared : RecordKey(prepared[i]) = RecordKey(r)}

SetMax(S) == CHOOSE x \in S : \A y \in S : y <= x
SetMin(S) == CHOOSE x \in S : \A y \in S : x <= y

\* C3 as stated: the merger is a full outer join.  Every expanded warning
\* appears in a record of its key with its ordinal as predicted severity, and
\* every classified observation appears in a record of its station, day and
\* parameter with its value.
C3_FullOuterJoin ==
    Done =>
        /\ \A i \in DOMAIN extended :
             \E j \in DOMAIN prepared :
                /\ RecordKey(prepared[j]) = ForecastKey(extended[i])
                /\ prepared[j].predicted_severity = extended[i].severity
        /\ \A i \in DOMAIN observed :
             \A p \in Range(DiscretizedParameters) :
                \E j \in DOMAIN prepared :
                   /\ RecordKey(prepared[j]) = <<observed[i].date, observed[i].geocode, p>>
                   /\ prepared[j].idema = observed[i].idema
                   /\ prepared[j].observed_value = observed[i].val[MAPPING_PARAMETER_ID[p]]

\* The half of C3 the left join keeps: no classified observation is lost.
ObservationsKept ==
    Done =>
        \A i \in DOMAIN observed :
           \A p \in Range(DiscretizedParameters) :
              \E j \in DOMAIN prepared :
                 /\ RecordKey(prepared[j]) = <<observed[i].date, observed[i].geocode, p>>
                 /\ prepared[j].idema = observed[i].idema
                 /\ prepared[j].observed_value = observed[i].val[MAPPING_PARAMETER_ID[p]]

\* A warning of a region and day with no observation has no record.
WarningWithoutRecord ==
    /\ Done
    /\ \E i \in DOMAIN extended :
          \A j \in DOMAIN prepared : RecordKey(prepared[j]) # ForecastKey(extended[i])

\* C4: in every analysis record the predicted, region and observed severities
\* are integers between 0 and 3, and a record whose key no warning covers has
\* predicted severity 0.
C4_SeveritiesAreOrdinals ==
    Done =>
        \A j \in DOMAIN prepared :
           /\ prepared[j].predicted_severity \in 0..3
           /\ prepared[j].region_severity \in 0..3
           /\ prepared[j].observed_severity \in 0..3
           /\ (\A i \in DOMAIN extended : ForecastKey(extended[i]) # RecordKey(prepared[j]))
                 => prepared[j].predicted_severity = 0

\* C4's case: a record without warning next to a record with one.
C4_Witness ==
    /\ Done
    /\ \E j, k \in DOMAIN prepared :
          /\ \A i \in DOMAIN extended : ForecastKey(extended[i]) # RecordKey(prepared[j])
          /\ prepared[j].predicted_severity = 0
          /\ prepared[j].observed_severity > 0
          /\ prepared[k].predicted_severity = 3

\* The frame of the stated example: three stations of geocode 34 with minimum
\* temperatures -11.0, -9.0, -13.0 and severities 1, 2, 2 on one day.
StatedExample ==
    [i \in 1..3 |->
        PreparedRow([date |-> 1, idema |-> ProcStations[i].idema, geocode |-> "34",
                     param_id |-> "BT",
                     station_severity |-> <<1, 2, 2>>[i],
                     station_value |-> <<-110, -90, -130>>[i]], NaN, NaN)]

\* C8: region_severity is the highest observed severity of the group of the
\* record; region_value is the highest observed value among the stations of the
\* group at that severity, the lowest for minimum temperature (BT).  Severities
\* 1, 2, 2 with values -11, -9, -13 give severity 2 and value -13.
C8_RegionalAggregate ==
    /\ \A i \in 1..3 : /\ SummarizedData(StatedExample)[i].region_severity = 2
                       /\ SummarizedData(StatedExample)[i].region_value = -130
    /\ Done =>
        \A j \in DOMAIN prepared :
           LET r == prepared[j]
               top == SetMax({prepared[i].observed_severity : i \in GroupOf(r)})
               values == {prepared[i].observed_value : i \in
                             {g \in GroupOf(r) : /\ prepared[g].observed_severity = top
                                                 /\ ~IsNaN(prepared[g].observed_value)}}
           IN  /\ r.region_severity = top
               /\ r.region_value = IF values = {} THEN NaN
                                   ELSE IF r.param_id = "BT" THEN SetMin(values)
                                   ELSE SetMax(values)

\* C8's case: three minimum temperatures of one region and day, -11.0, -9.0 and
\* -13.0, classified 2, 1 and 2 under -5/-10/-15, aggregated to severity 2 and
\* value -13.0.
C8_Witness ==
    /\ Done
    /\ \E j \in DOMAIN prepared :
          /\ prepared[j].param_id = "BT"
          /\ {<<prepared[i].observed_value, prepared[i].observed_severity>> : i \in GroupOf(prepared[j])}
                = {<<-110, 2>>, <<-90, 1>>, <<-130, 2>>}
          /\ prepared[j].region_severity = 2
          /\ prepared[j].region_value = -130

\* C9: all the records of one (date, geocode, parameter) carry the same
\* region_severity and the same region_value.
C9_OneAggregatePerGroup ==
    Done =>
        \A j, k \in DOMAIN prepared :
           RecordKey(prepared[j]) = RecordKey(prepared[k]) =>
              /\ prepared[j].region_severity = prepared[k].region_severity
              /\ prepared[j].region_value = prepared[k].region_value

\* C9's case: two stations of one group that differ, and on the same day and
\* parameter another region with another aggregate.
C9_Witness ==
    /\ Done
    /\ \E j, k, l \in DOMAIN prepared :
          /\ RecordKey(prepared[j]) = RecordKey(prepared[k])
          /\ prepared[j].observed_value # prepared[k].observed_value
          /\ prepared[j].observed_severity # prepared[k].observed_severity
          /\ prepared[l].date = prepared[j].date
          /\ prepared[l].param_id = prepared[j].param_id
          /\ prepared[l].geocode # prepared[j].geocode
          /\ prepared[l].region_value # prepared[j].region_value

\* The threshold family of a parameter and the rule of the classifier, as
\* the claims state them.
FamilyOfParameter(p) ==
    CASE p = "BT" -> "minimum_temperature"
      [] p = "AT" -> "maximum_temperature"
      [] p = "NE" -> "snowfall_24h"
      [] p = "VI" -> "wind_speed"
      [] p \in DerivedParameters("PR_1H") -> "precipitation_1h"
      [] p \in DerivedParameters("PR_12H") -> "precipitation_12h"

StatedSeverity(p, v, t) ==
    IF IsNaN(v) THEN 0
    ELSE IF p = "BT"
         THEN (IF v <= t.red THEN 3 ELSE IF v <= t.orange THEN 2
               ELSE IF v <= t.yellow THEN 1 ELSE 0)
         ELSE (IF v >= t.red THEN 3 ELSE IF v >= t.orange THEN 2
               ELSE IF v >= t.yellow THEN 1 ELSE 0)

\* C10: region_value is the observed value of a station of the group whose
\* severity is region_severity, and classifying region_value with the
\* thresholds of the region gives region_severity.
C10_AggregateConsistent ==
    Done =>
        \A j \in DOMAIN prepared :
           LET r == prepared[j]
           IN  /\ \E i \in GroupOf(r) :
                     /\ prepared[i].observed_value = r.region_value
                     /\ prepared[i].observed_severity = r.region_severity
               /\ \A t \in DOMAIN thresholds :
                     thresholds[t].geocode = r.geocode =>
                        StatedSeverity(r.param_id, r.region_value,
                                       thresholds[t].thr[FamilyOfParameter(r.param_id)])
                           = r.region_severity

\* C10's case: a group of two stations whose strongest hourly rain (13.2 mm
\* against 15/30/60) and strongest half-day rain (30.0 mm against 40/80/120)
\* fall in different families, next to a dry station.
C10_Witness ==
    /\ Done
    /\ \E j, k \in DOMAIN prepared :
          /\ prepared[j].param_id = "PR_12H.SEVERA"
          /\ prepared[j].region_value = 300
          /\ prepared[j].region_severity = 0
          /\ Cardinality(GroupOf(prepared[j])) = 2
          /\ prepared[k].param_id = "PR_1H.EXTREMA"
          /\ RecordKey(prepared[k])[1] = RecordKey(prepared[j])[1]
          /\ prepared[k].geocode = prepared[j].geocode
          /\ prepared[k].region_value = 300
          /\ prepared[k].region_severity = 2

(***************************************************************************)
(* Station Locator: geolocate_stations and the joins of                    *)
(* __geolocate_observed_data__.  A polygon is a rectangle of the           *)
(* latitude/longitude grid, given by its bounds; None is the string "None".*)
(***************************************************************************)
\* Polygon.contains(Point): the point lies in the interior of the polygon.
Contains(polygon, latitude, longitude) ==
    /\ polygon.south < latitude /\ latitude < polygon.north
    /\ polygon.west < longitude /\ longitude < polygon.east

\* Mutant: the geocode of the last region that contains the point.
LastContaining(geos, latitude, longitude) ==
    LET hits == SelectSeq(geos, LAMBDA a : Contains(a.polygon, latitude, longitude))
    IN  IF hits = <<>> THEN "None" ELSE hits[Len(hits)].geocode

\* next(a["geocode"] for a in geocodes.iterrows() if contains, None).
FirstContaining(geos, latitude, longitude) ==
    LET hits == SelectSeq(geos, LAMBDA a : Contains(a.polygon, latitude, longitude))
    IN  IF hits = <<>> THEN "None" ELSE Head(hits).geocode

\* centroid.distance(point): four times its square, which sorts alike.
Distance(polygon, latitude, longitude) ==
    (polygon.south + polygon.north - 2 * latitude) * (polygon.south + polygon.north - 2 * latitude)
    + (polygon.west + polygon.east - 2 * longitude) * (polygon.west + polygon.east - 2 * longitude)

\* The regions of the province of the station, else those whose region is
\* named as that province, else all.
FallbackSubset(geos, station) ==
    LET province == SelectSeq(geos, LAMBDA a : a.province = station.province)
        region == SelectSeq(geos, LAMBDA a : a.region = station.province)
    IN  IF province # <<>> THEN province ELSE IF region # <<>> THEN region ELSE geos

\* subset.sort_values("distance").iloc[0]["geocode"]: a region at the least
\* distance (the sort does not say which of several).
NearestGeocodes(subset, station) ==
    {subset[k].geocode : k \in
        {i \in DOMAIN subset : \A j \in DOMAIN subset :
            Distance(subset[i].polygon, station.latitude, station.longitude)
               <= Distance(subset[j].polygon, station.latitude, station.longitude)}}

\* stations["geocode"] = stations.apply(first containing region or None).
ContainStations ==
    /\ pc = "contain"
    /\ stations' = [i \in DOMAIN stations |->
                       [stations[i] EXCEPT !.geocode =
                           FirstContaining(geocodes, stations[i].latitude, stations[i].longitude)]]
    /\ pc' = "centroids"
    /\ UNCHANGED <<stat, consVars, procVars, runVars, snow_level>>

\* One turn of "for _, stat in stations.iterrows()": the geocode is assigned to
\* stat, the copy of the row that iterrows yields; the frame keeps its row.
NearestCentroid ==
    /\ pc = "centroids"
    /\ Len(stat) < Len(stations)
    /\ LET row == stations[Len(stat) + 1]
       IN  IF row.geocode = "None"
           THEN \E g \in NearestGeocodes(FallbackSubset(geocodes, row), row) :
                   stat' = Append(stat, [row EXCEPT !.geocode = g])
           ELSE stat' = Append(stat, row)
    /\ UNCHANGED <<pc, stations, consVars, procVars, runVars, snow_level>>

\* stations.to_csv(...) after the loop; get_geolocated_stations reads it back.
StoreStations ==
    /\ pc = "centroids"
    /\ Len(stat) = Len(stations)
    /\ pc' = "located"
    /\ UNCHANGED <<stations, stat, consVars, procVars, runVars, snow_level>>

\* The two inner joins: observations with stations on idema, then with the
\* regions on geocode.
RECURSIVE GeolocatedRows(_, _, _)
GeolocatedRows(obs, stats, geos) ==
    IF obs = <<>> THEN <<>>
    ELSE LET o == Head(obs)
             located == SelectSeq(stats, LAMBDA t : t.idema = o.idema)
             Regions(t) == SelectSeq(geos, LAMBDA a : a.geocode = t.geocode)
             RECURSIVE Joined(_)
             Joined(ts) ==
                 IF ts = <<>> THEN <<>>
                 ELSE [k \in 1..Len(Regions(Head(ts))) |->
                          [o EXCEPT !.geocode = Head(ts).geocode]]
                      \o Joined(Tail(ts))
         IN  Joined(located) \o GeolocatedRows(Tail(obs), stats, geos)

GeolocateObservedData ==
    /\ pc = "located"
    /\ observed' = GeolocatedRows(observed, stations, geocodes)
    /\ pc' = "evaluate"
    /\ UNCHANGED <<stations, stat, thresholds, geocodes, warnings, extended, prepared, consVars,
                   runVars, snow_level>>

(***************************************************************************)
(* Bounded inputs of the locator.                                          *)
(***************************************************************************)
MaxStations == 2

\* Regions 12 and 34 overlap between latitudes 2 and 4; region 61 lies apart.
LocRegions ==
    { [geocode |-> "12", region |-> "Comunitat Valenciana", province |-> "Castellon",
       polygon |-> [south |-> 0, north |-> 4, west |-> 0, east |-> 4]],
      [geocode |-> "34", region |-> "Asturias", province |-> "Asturias",
       polygon |-> [south |-> 2, north |-> 8, west |-> 0, east |-> 4]],
      [geocode |-> "61", region |-> "Andalucia", province |-> "Almeria",
       polygon |-> [south |-> 10, north |-> 14, west |-> 0, east |-> 4]] }

\* The region table in any order of its rows.
RegionTables ==
    {t \in [1..Cardinality(LocRegions) -> LocRegions] :
        \A i, j \in DOMAIN t : i # j => t[i] # t[j]}

LocLatitudes == {1, 3, 6, 9, 15}
LocLongitudes == {2, 6}
LocProvinces == {"Castellon", "Andalucia", "Lugo"}
LocIdemas == <<"1212E", "1249X", "1283U", "5402">>

\* get_stations: the inventory, no geocode yet.
StationRow(idema, province, latitude, longitude) ==
    [idema |-> idema, province |-> province, latitude |-> latitude,
     longitude |-> longitude, geocode |-> "None"]

InitLoc ==
    /\ NoRun
    /\ pc = "contain"
    /\ geocodes \in RegionTables
    /\ \E prov \in [1..MaxStations -> LocProvinces] :
         \E lat \in [1..MaxStations -> LocLatitudes] :
            \E lon \in [1..MaxStations -> LocLongitudes] :
               stations = [i \in 1..MaxStations |->
                              StationRow(LocIdemas[i], prov[i], lat[i], lon[i])]
    /\ stat = <<>>
    /\ observed = [i \in 1..MaxStations |->
                      ObservedRow(1, LocIdemas[i], "None",
                                  EstimatedValues(-110, 20, 0, 264, FALSE))]
    /\ thresholds = <<>>
    /\ warnings = <<>>
    /\ extended = <<>>
    /\ prepared = <<>>
    /\ caps = 0
    /\ capFiles = <<>>
    /\ capsDf = <<>>
    /\ expandedDf = <<>>
    /\ warningsFile = <<>>

NextLoc ==
    \/ ContainStations
    \/ NearestCentroid
    \/ StoreStations
    \/ GeolocateObservedData

SpecLoc == InitLoc /\ [][NextLoc]_vars

(***************************************************************************)
(* Properties of the locator (SpecLoc).                                    *)
(***************************************************************************)
Located == pc \in {"located", "evaluate"}

\* The places in the region table of the regions whose polygon holds station i.
Holding(i) ==
    {k \in DOMAIN geocodes :
        /\ geocodes[k].polygon.south < stations[i].latitude
        /\ stations[i].latitude < geocodes[k].polygon.north
        /\ geocodes[k].polygon.west < stations[i].longitude
        /\ stations[i].longitude < geocodes[k].polygon.east}

\* The candidate regions of the fallback for station i and, among them, those
\* whose centroid is nearest.
CandidatesOf(i) ==
    LET byProvince == {k \in DOMAIN geocodes : geocodes[k].province = stations[i].province}
        byRegion == {k \in DOMAIN geocodes : geocodes[k].region = stations[i].province}
    IN  IF byProvince # {} THEN byProvince
        ELSE IF byRegion # {} THEN byRegion ELSE DOMAIN geocodes

SquaredDistance(k, i) ==
    LET p == geocodes[k].polygon
        dLat == p.south + p.north - 2 * stations[i].latitude
        dLon == p.west + p.east - 2 * stations[i].longitude
    IN  dLat * dLat + dLon * dLon

NearestOf(i) ==
    {geocodes[k].geocode : k \in
        {c \in CandidatesOf(i) :
            \A d \in CandidatesOf(i) : SquaredDistance(c, i) <= SquaredDistance(d, i)}}

\* C11 as stated: a station that no polygon holds leaves the locator with
\* the geocode of the nearest centroid among the regions of its province, else
\* of its region name, else all.
C11_NearestCentroidFallback ==
    Located =>
        \A i \in DOMAIN stations :
           Holding(i) = {} => stations[i].geocode \in NearestOf(i)

\* What the loop does compute, and where it leaves it: the copy of the row
\* carries the nearest geocode, the stored row carries none.
FallbackOnlyInCopy ==
    \A i \in DOMAIN stat :
       Holding(i) = {} => /\ stat[i].geocode \in NearestOf(i)
                          /\ stations[i].geocode = "None"

\* A station of province Castellon outside every polygon, nearer to the centroid
\* of region 61 than to that of region 12: the copy says "12", the frame None.
FallbackLost ==
    /\ Located
    /\ \E i \in DOMAIN stations :
          /\ Holding(i) = {}
          /\ stations[i].province = "Castellon"
          /\ stat[i].geocode = "12"
          /\ stations[i].geocode = "None"

\* C12 as stated: after geolocate_stations every station has a geocode (no
\* run of this model ends in an error), and every observation keeps a row
\* after the joins on geocode.
C12_EveryStationLocated ==
    Located =>
        /\ \A i \in DOMAIN stations : stations[i].geocode # "None"
        /\ pc = "evaluate" =>
              \A i \in DOMAIN stations :
                 \E j \in DOMAIN observed : observed[j].idema = stations[i].idema

\* C13: a station that at least one polygon holds gets the geocode of the
\* first such region of the table, and the loop of the fallback leaves its
\* row as it is.
C13_FirstContainingRegion ==
    pc # "contain" =>
        \A i \in DOMAIN stations :
           Holding(i) # {} =>
              /\ \E k \in Holding(i) :
                    /\ \A l \in Holding(i) : k <= l
                    /\ stations[i].geocode = geocodes[k].geocode
              /\ i \in DOMAIN stat => stat[i] = stations[i]

\* C13's case: a station in the overlap of two regions, located in the one that
\* comes first although the other comes later in the table, then joined.
C13_Witness ==
    /\ pc = "evaluate"
    /\ \E i \in DOMAIN stations :
          /\ Cardinality(Holding(i)) = 2
          /\ \E k, l \in Holding(i) :
                k < l /\ stations[i].geocode = geocodes[k].geocode
                      /\ geocodes[l].geocode # stations[i].geocode
          /\ stat[i].geocode = stations[i].geocode
          /\ \E j \in DOMAIN observed :
                observed[j].idema = stations[i].idema
                   /\ observed[j].geocode = stations[i].geocode

(***************************************************************************)
(* Properties of the Parameter Expander (SpecProc).                        *)
(***************************************************************************)
Expanded == pc \in {"discretize", "complete", "summarize", "done"}

\* The ids an input warning is issued under after the expansion.
IssuedIds(param_id) ==
    IF param_id = "PR_1H"
    THEN {p \in Range(ALLOWED_PARAMETER_ID) :
             p \in {"PR_1H.UNIFORME", "PR_1H.SEVERA", "PR_1H.EXTREMA"}}
    ELSE IF param_id = "PR_12H"
    THEN {p \in Range(ALLOWED_PARAMETER_ID) :
             p \in {"PR_12H.UNIFORME", "PR_12H.SEVERA", "PR_12H.EXTREMA"}}
    ELSE {param_id}

\* Input warning i under id p, its severity as the ordinal of its token.
Issued(i, p) ==
    [warnings[i] EXCEPT !.param_id = p,
                        !.severity = MAPPING_SEVERITY_VALUE[warnings[i].severity]]

IssuedPairs == {<<i, p>> \in (DOMAIN warnings) \X Range(ALLOWED_PARAMETER_ID) :
                   p \in IssuedIds(warnings[i].param_id)}

Transformed == pc \in {"clean", "stored", "failed"}

\* The days a raw row takes effect and expires: the dates, in UTC, of its two
\* timestamps.
EffectiveDay(r) == DateOf(ToDatetimeUtc(r.effective))
ExpiresDay(r) == DateOf(ToDatetimeUtc(r.expires))

\* The raw rows that reach the expansion.
Expandable == {i \in DOMAIN capsDf : capsDf[i].param_id \in Range(ALLOWED_PARAMETER_ID)}

\* The expanded rows that come from raw row i.
ExpansionOf(i) == {k \in DOMAIN expandedDf : expandedDf[k].id = capsDf[i].id}

\* C17: a raw warning of effective day e and expires day x, e <= x, is expanded
\* into exactly x - e + 1 rows, one for each day d of e..x, each equal to the
\* raw row except that effective = expires = d.
C17_OneRowPerDay ==
    Transformed =>
        \A i \in Expandable :
           LET r == capsDf[i]
               e == EffectiveDay(r)
               x == ExpiresDay(r)
           IN  e <= x =>
                  /\ Cardinality(ExpansionOf(i)) = x - e + 1
                  /\ \A d \in e..x :
                        \E k \in ExpansionOf(i) :
                           /\ expandedDf[k].effective = d
                           /\ expandedDf[k].expires = d
                  /\ \A k \in ExpansionOf(i) :
                        /\ expandedDf[k].effective \in e..x
                        /\ expandedDf[k].severity = r.severity
                        /\ expandedDf[k].param_id = r.param_id
                        /\ expandedDf[k].param_value = r.param_value
                        /\ expandedDf[k].geocode = r.geocode
                        /\ expandedDf[k].polygon = r.polygon
                        /\ expandedDf[k].sent = ToDatetimeUtc(r.sent)

\* C17's case: a warning of three days next to a warning of a single day.
C17_Witness ==
    /\ Transformed
    /\ \E i, j \in Expandable :
          /\ ExpiresDay(capsDf[i]) = EffectiveDay(capsDf[i]) + 2
          /\ {expandedDf[k].effective : k \in ExpansionOf(i)}
                = EffectiveDay(capsDf[i])..ExpiresDay(capsDf[i])
          /\ ExpiresDay(capsDf[j]) = EffectiveDay(capsDf[j])
          /\ Cardinality(ExpansionOf(j)) = 1

\* C18 as stated: every row that leaves the day expansion has effective equal
\* to expires, whatever the days of the raw row.
C18_EffectiveEqualsExpires ==
    Transformed =>
        \A k \in DOMAIN expandedDf : expandedDf[k].effective = expandedDf[k].expires

\* What holds instead: the rows of a raw warning that does not expire before it
\* takes effect have effective equal to expires.
OrderedDaysExpanded ==
    Transformed =>
        \A i \in Expandable :
           EffectiveDay(capsDf[i]) <= ExpiresDay(capsDf[i]) =>
              \A k \in ExpansionOf(i) : expandedDf[k].effective = expandedDf[k].expires

\* A raw warning that expires the day before it takes effect leaves the
\* expansion as one row with its two days as they were.
ReversedKept ==
    /\ Transformed
    /\ \E k \in DOMAIN expandedDf : expandedDf[k].expires < expandedDf[k].effective

(***************************************************************************)
(* Properties of the consolidator as a whole (SpecCons).                   *)
(***************************************************************************)
Stored == pc = "stored"

\* A bulletin whose level is not a recognized token or whose parameter is not
\* an allowed one.
Unrecognized(b) ==
    \/ b.nivel \notin {"verde", "amarillo", "naranja", "rojo"}
    \/ CapRow(0, b).param_id \notin Range(ALLOWED_PARAMETER_ID)

\* The bulletins read, by the identifier given to their row.
UnrecognizedIds == {n \in DOMAIN capFiles : Unrecognized(capFiles[n])}

\* C19 as stated: a raw warning of unrecognized level or parameter is removed
\* without an error being raised; it is not in the output and the output is the
\* one the other rows give without it.
C19_DroppedWithoutError ==
    UnrecognizedIds # {} =>
        /\ pc # "failed"
        /\ Stored =>
              /\ \A k \in DOMAIN warningsFile : warningsFile[k].id \notin UnrecognizedIds
              /\ warningsFile =
                    CleanCapsFiles(TransformCapsWarnings(
                        SelectSeq(capsDf, LAMBDA r : r.id \notin UnrecognizedIds)))

\* What holds instead: in a run that stores a warnings file the removed rows are
\* absent and without influence.
DroppedWhenStored ==
    Stored =>
        /\ \A k \in DOMAIN warningsFile : warningsFile[k].id \notin UnrecognizedIds
        /\ warningsFile =
              CleanCapsFiles(TransformCapsWarnings(
                  SelectSeq(capsDf, LAMBDA r : r.id \notin UnrecognizedIds)))

\* A run whose bulletins are all removed, one of them for its parameter, ends
\* in the KeyError of the sort.
AllDroppedFails ==
    /\ pc = "failed"
    /\ capFiles # <<>>
    /\ \A n \in DOMAIN capFiles : n \in UnrecognizedIds
    /\ \E n \in DOMAIN capFiles : capFiles[n].event_code = "CO"

\* A run that drops a bulletin of unknown level and one of a parameter that is
\* not allowed, and stores the warning of the third.
DroppedNextToKept ==
    /\ Stored
    /\ \E m, n \in UnrecognizedIds :
          /\ capFiles[m].nivel = "None"
          /\ capFiles[n].event_code = "CO"
    /\ Len(warningsFile) = 1

\* The orders of the rows of a frame of n rows.
Orderings(n) == {o \in [1..n -> 1..n] : \A i, j \in 1..n : i # j => o[i] # o[j]}

\* C20 as stated: for any two orders of the same raw rows the consolidator
\* gives the same set of rows, field for field.
C20_OrderIndependent ==
    Stored =>
        \A o \in Orderings(Len(capsDf)) :
           Range(CleanCapsFiles(TransformCapsWarnings([i \in 1..Len(capsDf) |-> capsDf[o[i]]])))
              = Range(warningsFile)

\* What holds instead: the keys and the severities of the kept rows do not
\* depend on the order; with several rows equal in severity and sent time the
\* identifier and the value are those of the one read first.
KeptRanks(df) == {<<df[k].geocode, df[k].param_id, df[k].effective, df[k].severity>> :
                     k \in DOMAIN df}

RanksOrderIndependent ==
    Stored =>
        \A o \in Orderings(Len(capsDf)) :
           KeptRanks(CleanCapsFiles(TransformCapsWarnings([i \in 1..Len(capsDf) |-> capsDf[o[i]]])))
              = KeptRanks(warningsFile)

\* Two red bulletins of one region, parameter and day sent at the same time, of
\* values 36 and 38: the stored value is the one of the bulletin read first.
TieKeptByOrder ==
    /\ Stored
    /\ \E i, j \in DOMAIN capsDf :
          /\ i < j
          /\ capsDf[i].sent = capsDf[j].sent
          /\ capsDf[i].severity = capsDf[j].severity
          /\ capsDf[i].geocode = capsDf[j].geocode
          /\ capsDf[i].param_id = capsDf[j].param_id
          /\ capsDf[i].effective = capsDf[j].effective
          /\ capsDf[i].param_value = 38 /\ capsDf[j].param_value = 36
          /\ \E k \in DOMAIN warningsFile :
                warningsFile[k].id = capsDf[i].id /\ warningsFile[k].param_value = 38

(***************************************************************************)
(* Order independence of the Regional Aggregator (SpecProc).               *)
(***************************************************************************)
\* The prepared frame the steps after the classification give for a frame of
\* classified observations.
PreparedFrom(obs) ==
    SummarizedData(CompletedRows(
        MergedWithWarnings(Discretized(obs, DiscretizedParameters), extended), geocodes))

\* The aggregate each (date, geocode, parameter) carries in a prepared frame.
AggregatesOf(df) ==
    {<<df[k].date, df[k].geocode, df[k].param_id, df[k].region_severity, df[k].region_value>> :
        k \in DOMAIN df}

\* C21: for every order of the classified station observations the aggregator
\* gives every (date, geocode, parameter) the same region_severity and
\* region_value.
C21_AggregatorOrderIndependent ==
    Done =>
        \A o \in Orderings(Len(observed)) :
           AggregatesOf(PreparedFrom([i \in 1..Len(observed) |-> observed[o[i]]]))
              = AggregatesOf(prepared)

\* C21's case: three stations of one region and day, two of them at the highest
\* severity with different minimum temperatures, the coldest read last.
C21_Witness ==
    /\ Done
    /\ Len(observed) = 3
    /\ \E j, k \in DOMAIN prepared :
          /\ j < k
          /\ prepared[j].param_id = "BT"
          /\ RecordKey(prepared[j]) = RecordKey(prepared[k])
          /\ Cardinality(GroupOf(prepared[j])) = 3
          /\ prepared[j].observed_severity = prepared[j].region_severity
          /\ prepared[k].observed_severity = prepared[j].region_severity
          /\ prepared[j].observed_value > prepared[k].observed_value
          /\ prepared[k].observed_value = prepared[k].region_value

(***************************************************************************)
(* The consolidator applied to its own output (SpecCons).                  *)
(***************************************************************************)
\* C22 as stated: __clean_caps_files__ applied to the frame it returned gives
\* that frame again, same rows and same field values.
C22_Idempotent ==
    Stored =>
        /\ CleanCapsFilesOn(warningsFile).raised = "None"
        /\ CleanCapsFilesOn(warningsFile).frame = warningsFile

\* The frame returned has the columns of FIELDS_WARNING_DATA only; sorting it by
\* sent raises KeyError.
ReconsolidationRaises ==
    /\ Stored
    /\ \A i \in DOMAIN warningsFile : "sent" \notin DOMAIN warningsFile[i]
    /\ CleanCapsFilesOn(warningsFile).raised = "KeyError"

(***************************************************************************)
(* A warnings file with two rows of one key (SpecDup).                     *)
(***************************************************************************)
\* get_warnings reads the file of the event as it stands; fetch_predicted_warnings
\* writes it only when it does not exist.  Files put together from the stored
\* output of two bulletins, which may share geocode, parameter and day.
JoinedWarnings ==
    {StoredWarnings(<<a>>) \o StoredWarnings(<<b>>) : a, b \in ProcBulletins}

InitDup ==
    /\ NoRun
    /\ pc = "evaluate"
    /\ observed \in ObservedFrames(1, ColdReadings)
    /\ warnings \in JoinedWarnings
    /\ thresholds = ProcThresholds
    /\ geocodes = ProcGeocodes
    /\ extended = <<>>
    /\ prepared = <<>>
    /\ caps = 0
    /\ capFiles = <<>>
    /\ stations = <<>>
    /\ stat = <<>>
    /\ capsDf = <<>>
    /\ expandedDf = <<>>
    /\ warningsFile = <<>>

SpecDup == InitDup /\ [][NextProc]_vars

\* Two rows of the warnings table with the same (geocode, parameter, day).
DuplicateKeys ==
    {<<warnings[i].geocode, warnings[i].param_id, warnings[i].effective>> :
        i \in {k \in DOMAIN warnings :
                 \E j \in DOMAIN warnings :
                    /\ j # k
                    /\ warnings[j].geocode = warnings[k].geocode
                    /\ warnings[j].param_id = warnings[k].param_id
                    /\ warnings[j].effective = warnings[k].effective}}

\* C23 as stated: whatever the warnings table, a station observation is emitted
\* as at most one record for a (date, station, parameter).
C23_DuplicateKeyNotPassed ==
    Done =>
        \A j, k \in DOMAIN prepared :
           (/\ prepared[j].date = prepared[k].date
            /\ prepared[j].idema = prepared[k].idema
            /\ prepared[j].param_id = prepared[k].param_id) => j = k

\* A finished run whose warnings table had two rows of one key: the observation
\* of that key is emitted twice, once with each predicted severity.
DuplicateEmittedTwice ==
    /\ Done
    /\ DuplicateKeys # {}
    /\ \E j, k \in DOMAIN prepared :
          /\ j # k
          /\ prepared[j].date = prepared[k].date
          /\ prepared[j].idema = prepared[k].idema
          /\ prepared[j].param_id = prepared[k].param_id
          /\ prepared[j].predicted_severity # prepared[k].predicted_severity

\* Without two rows of one key no observation is emitted twice.
UniqueKeysEmitOnce ==
    (Done /\ DuplicateKeys = {}) =>
        \A j, k \in DOMAIN prepared :
           (/\ prepared[j].date = prepared[k].date
            /\ prepared[j].idema = prepared[k].idema
            /\ prepared[j].param_id = prepared[k].param_id) => j = k

(***************************************************************************)
(* Bulletins without a required element (SpecCons).                        *)
(***************************************************************************)
Incomplete(b) == ~(CapElements \subseteq b.elements)

\* C24 as stated: a bulletin without a required element is skipped and the run
\* goes on; the extraction never ends in an error because of it.
C24_MissingFieldSkipped ==
    \A i \in DOMAIN capFiles : Incomplete(capFiles[i]) => pc # "raised"

\* A complete, recognized bulletin was read and gave a row; the next file has no
\* effective element and the run ends in the error, storing nothing.
MissingFieldEndsRun ==
    /\ pc = "raised"
    /\ Len(capFiles) = 2
    /\ ~Incomplete(capFiles[1])
    /\ Len(capsDf) = 1
    /\ Incomplete(capFiles[2])
    /\ warningsFile = <<>>

\* No run that read an incomplete bulletin stores a warnings file.
IncompleteNeverStored ==
    Stored => \A i \in DOMAIN capFiles : ~Incomplete(capFiles[i])

(***************************************************************************)
(* Severity tokens of the warning rows (SpecCons).                         *)
(***************************************************************************)
\* C28: every row extracted from the bulletins, every expanded row and every
\* consolidated row has a severity among amarillo, naranja, rojo, of ordinal 1
\* to 3; a bulletin of level verde gives no row.
C28_NoGreenWarning ==
    \A token \in {capsDf[i].severity : i \in DOMAIN capsDf}
                  \cup {expandedDf[i].severity : i \in DOMAIN expandedDf}
                  \cup {warningsFile[i].severity : i \in DOMAIN warningsFile} :
       /\ token \in {"amarillo", "naranja", "rojo"}
       /\ MAPPING_SEVERITY_VALUE[token] \in 1..3

\* C28's case: a bulletin of level verde and one of level amarillo for the same
\* key were read, and the stored row of the key is the amarillo one.
C28_Witness ==
    /\ Stored
    /\ \E i, j \in DOMAIN capFiles :
          /\ capFiles[i].nivel = "verde"
          /\ capFiles[j].nivel = "amarillo"
          /\ capFiles[j].geocode = capFiles[i].geocode
          /\ capFiles[j].event_code = capFiles[i].event_code
          /\ capFiles[j].effective = capFiles[i].effective
          /\ capFiles[j].expires = capFiles[i].expires
    /\ Len(warningsFile) = 1
    /\ warningsFile[1].severity = "amarillo"

(***************************************************************************)
(* The downloads of a run: fetch_predicted_warnings, load_raw_data and     *)
(* fetch_observed_data of EventDataProcessor, with the request functions   *)
(* of aemet_opendata.py.  Days are numbered; the event runs from           *)
(* event.start to event.end.  The functions aemet_opendata.py takes from   *)
(* its constants module (paths, column lists) are those of                 *)
(* event_data_commons.py.                                                  *)
(***************************************************************************)
MaxEventDays == 2

\* stop=tenacity.stop_after_attempt(3)
StopAfterAttempt == 3

\* What one attempt of a request function ends with: it returns, or raises
\* requests' RequestException, or raises another error.
Outcomes == {"ok", "RequestException", "ValueError"}

\* Mutant: every error is tried again.
RetriedAlways(outcome) == outcome # "ok"

\* retry=tenacity.retry_if_exception_type(RequestException)
Retried(outcome) == outcome = "RequestException"

\* Mutant: bulletins are downloaded whenever there is no warnings file.
NeedsDownloadWithoutFile(existing) == "warnings" \notin existing

\* The two nested conditions of fetch_predicted_warnings under which fetch_caps
\* is called.
NeedsDownload(existing) == "warnings" \notin existing /\ "caps" \notin existing

\* The bulletins the archive of a day may hold: none, one for the afternoon of
\* the day, one lasting until noon of the next day.
DayBulletins(d) ==
    { <<>>,
      <<Bulletin(Stamp(d, 8), "amarillo",
                 <<"34", "BT", "Temperaturas minimas", <<Stamp(d, 12), Stamp(d, 23)>> >>)>>,
      <<Bulletin(Stamp(d, 8), "naranja",
                 <<"34", "BT", "Temperaturas minimas", <<Stamp(d, 12), Stamp(d + 1, 12)>> >>)>> }

\* caps_to_warnings on the bulletins on disk: extraction, transformation and
\* cleaning, or the error one of them raises.
CapsToWarningsOn(bs) ==
    IF \E i \in DOMAIN bs : ~(CapElements \subseteq bs[i].elements)
    THEN [raised |-> "AttributeError", frame |-> <<>>]
    ELSE LET rows == [i \in DOMAIN bs |-> CapRow(i, bs[i])]
             kept == SelectSeq(rows, LAMBDA r :
                        Emitted(r.severity) /\ r.geocode # "None" /\ r.polygon # "None")
         IN  CleanCapsFilesOn(TransformCapsWarnings(kept))

\* The rows of the warnings frame with a severity of ordinal 1 or more.
FilteredWarnings ==
    SelectSeq(warnings, LAMBDA w :
        w.severity \in DOMAIN MAPPING_SEVERITY_VALUE /\ MAPPING_SEVERITY_VALUE[w.severity] >= 1)

get_warnings_start ==
    IF FilteredWarnings # <<>>
    THEN SetMin({FilteredWarnings[i].effective : i \in DOMAIN FilteredWarnings})
    ELSE event.start

get_warnings_end ==
    IF FilteredWarnings # <<>>
    THEN SetMax({FilteredWarnings[i].effective : i \in DOMAIN FilteredWarnings})
    ELSE event.end

\* fetch_predicted_warnings up to the first call it makes.
CheckWarnings ==
    /\ pc = "fetch_predicted_warnings"
    /\ IF "warnings" \in files
       THEN pc' = "check_geolocated" /\ UNCHANGED <<calls, day>>
       ELSE IF NeedsDownload(files)
       THEN /\ pc' = "fetch_caps"
            /\ calls' = Append(calls, "fetch_caps")
            /\ day' = event.start
       ELSE pc' = "caps_to_warnings" /\ UNCHANGED <<calls, day>>
    /\ UNCHANGED <<files, event, requests, attempt, consVars, procVars,
                   locVars, snow_level>>

\* One attempt of __request_caps for the day of the loop of fetch_caps, followed
\* by __extract_tars when it returns.  An error that is not tried again, or the
\* last attempt allowed, ends fetch_caps and the run.
RequestCaps(outcome, found) ==
    /\ pc = "fetch_caps"
    /\ requests' = Append(requests, [fn |-> "__request_caps", day |-> day,
                                     attempt |-> attempt + 1, outcome |-> outcome])
    /\ IF outcome = "ok"
       THEN /\ attempt' = 0
            /\ capFiles' = capFiles \o found
            /\ files' = IF found # <<>> THEN files \cup {"caps"} ELSE files
            /\ IF day < event.end
               THEN day' = day + 1 /\ pc' = pc
               ELSE day' = day /\ pc' = "caps_to_warnings"
       ELSE /\ attempt' = attempt + 1
            /\ pc' = IF Retried(outcome) /\ attempt + 1 < StopAfterAttempt
                     THEN pc ELSE "raised"
            /\ UNCHANGED <<capFiles, files, day>>
    /\ UNCHANGED <<event, calls, caps, capsDf, expandedDf, warningsFile, procVars,
                   locVars, snow_level>>

\* caps_to_warnings: the warnings file is written unless a step raises.
CapsToWarnings ==
    /\ pc = "caps_to_warnings"
    /\ calls' = Append(calls, "caps_to_warnings")
    /\ IF CapsToWarningsOn(capFiles).raised # "None"
       THEN pc' = "raised" /\ UNCHANGED <<warningsFile, files>>
       ELSE /\ warningsFile' = CapsToWarningsOn(capFiles).frame
            /\ files' = files \cup {"warnings"}
            /\ pc' = "check_geolocated"
    /\ UNCHANGED <<event, requests, attempt, day, capFiles, caps, capsDf, expandedDf,
                   procVars, locVars, snow_level>>

\* The end of fetch_predicted_warnings: the stations are geolocated when the
\* file of geolocated stations does not exist.
CheckGeolocated ==
    /\ pc = "check_geolocated"
    /\ IF "geolocated" \notin files
       THEN /\ calls' = Append(calls, "geolocate_stations")
            /\ files' = files \cup {"geolocated"}
       ELSE UNCHANGED <<calls, files>>
    /\ pc' = "load_raw_data"
    /\ UNCHANGED <<event, requests, attempt, day, consVars, procVars, locVars, snow_level>>

\* load_raw_data: the warnings file is read and clean_files removes the
\* directories of the bulletins.
LoadRawData ==
    /\ pc = "load_raw_data"
    /\ warnings' = warningsFile
    /\ capFiles' = <<>>
    /\ files' = files \ {"caps"}
    /\ pc' = "fetch_observed_data"
    /\ UNCHANGED <<event, calls, requests, attempt, day, caps, capsDf, expandedDf,
                   warningsFile, observed, thresholds, geocodes, extended, prepared,
                   locVars, snow_level>>

\* fetch_observed_data up to the loop of fetch_observations, for n in
\* range((end - start).days).  Without a day in the range pd.concat has nothing
\* to concatenate and raises ValueError.
CheckObservations ==
    /\ pc = "fetch_observed_data"
    /\ IF "observations" \in files
       THEN pc' = "get_observations" /\ UNCHANGED <<calls, day>>
       ELSE /\ calls' = Append(calls, "fetch_observations")
            /\ day' = get_warnings_start
            /\ pc' = IF get_warnings_end - get_warnings_start > 0
                     THEN "fetch_observations" ELSE "raised"
    /\ UNCHANGED <<files, event, requests, attempt, consVars, procVars,
                   locVars, snow_level>>

\* One attempt of __request_observations for the day of the loop; after the last
\* day of the range the observations file is written.
RequestObservations(outcome) ==
    /\ pc = "fetch_observations"
    /\ requests' = Append(requests, [fn |-> "__request_observations", day |-> day,
                                     attempt |-> attempt + 1, outcome |-> outcome])
    /\ IF outcome = "ok"
       THEN /\ attempt' = 0
            /\ IF day + 1 < get_warnings_end
               THEN day' = day + 1 /\ pc' = pc /\ files' = files
               ELSE /\ day' = day
                    /\ files' = files \cup {"observations"}
                    /\ pc' = "get_observations"
       ELSE /\ attempt' = attempt + 1
            /\ pc' = IF Retried(outcome) /\ attempt + 1 < StopAfterAttempt
                     THEN pc ELSE "raised"
            /\ UNCHANGED <<files, day>>
    /\ UNCHANGED <<event, calls, consVars, procVars, locVars, snow_level>>

\* The days the observations file of the run holds: those downloaded.
DownloadedDays ==
    {requests[i].day : i \in {k \in DOMAIN requests :
        requests[k].fn = "__request_observations" /\ requests[k].outcome = "ok"}}

\* get_observations: the file is read; a file that was there before the run
\* holds the days it holds.
GetObservations ==
    /\ pc = "get_observations"
    /\ \E held \in IF "fetch_observations" \in Range(calls)
                   THEN {DownloadedDays}
                   ELSE SUBSET (event.start..event.end) :
          observed' = [i \in 1..Cardinality(held) |->
                          [date |-> CHOOSE d \in held :
                                       Cardinality({x \in held : x < d}) = i - 1]]
    /\ pc' = "fetched"
    /\ UNCHANGED <<thresholds, geocodes, warnings, extended, prepared, consVars, locVars,
                   runVars, snow_level>>

\* The files found when the run starts, and what the two data files hold.
StoredBefore ==
    {CapsToWarningsOn(bs).frame :
        bs \in {b \in DayBulletins(1) \cup DayBulletins(2) : b # <<>>}}

InitRun ==
    /\ pc = "fetch_predicted_warnings"
    /\ files \in SUBSET {"warnings", "caps", "geolocated", "observations"}
    /\ event \in {[start |-> 1, end |-> e] : e \in 1..MaxEventDays}
    /\ calls = <<>>
    /\ requests = <<>>
    /\ attempt = 0
    /\ day = 0
    /\ snow_level = <<>>
    /\ warningsFile \in IF "warnings" \in files THEN StoredBefore ELSE {<<>>}
    /\ capFiles \in IF "caps" \in files
                    THEN {b \in DayBulletins(1) : b # <<>>} ELSE {<<>>}
    /\ caps = 0
    /\ capsDf = <<>>
    /\ expandedDf = <<>>
    /\ stations = <<>>
    /\ stat = <<>>
    /\ observed = <<>>
    /\ thresholds = <<>>
    /\ geocodes = <<>>
    /\ warnings = <<>>
    /\ extended = <<>>
    /\ prepared = <<>>

NextRun ==
    \/ CheckWarnings
    \/ \E o \in Outcomes :
          \E found \in IF o = "ok" THEN DayBulletins(day) ELSE {<<>>} : RequestCaps(o, found)
    \/ CapsToWarnings
    \/ CheckGeolocated
    \/ LoadRawData
    \/ CheckObservations
    \/ \E o \in Outcomes : RequestObservations(o)
    \/ GetObservations

SpecRun == InitRun /\ [][NextRun]_vars

(***************************************************************************)
(* Properties of the downloads (SpecRun).                                  *)
(***************************************************************************)
Fetched == pc = "fetched"

\* The calls of a request function made for a day: their first attempts.
CallsFor(fn, d) ==
    {k \in DOMAIN requests :
        requests[k].fn = fn /\ requests[k].day = d /\ requests[k].attempt = 1}

\* C25 as stated: after fetch_observed_data has downloaded the observations,
\* __request_observations was called once for each day from get_warnings_start()
\* to get_warnings_end(), the end day included, and the observations read hold
\* each of these days.
C25_EveryWarnedDayRequested ==
    (Fetched /\ "fetch_observations" \in Range(calls)) =>
        \A d \in get_warnings_start..get_warnings_end :
           /\ Cardinality(CallsFor("__request_observations", d)) = 1
           /\ \E i \in DOMAIN observed : observed[i].date = d

\* What holds instead: the days requested are those from the start to the day
\* before the end, once each.
DaysBeforeEndRequested ==
    (Fetched /\ "fetch_observations" \in Range(calls)) =>
        \A d \in 0..(MaxEventDays + 2) :
           Cardinality(CallsFor("__request_observations", d)) =
              IF d >= get_warnings_start /\ d < get_warnings_end THEN 1 ELSE 0

\* Warnings in effect on two days: the observations of the second day, which has
\* a warning, are never requested.
EndDayNotRequested ==
    /\ Fetched
    /\ "fetch_observations" \in Range(calls)
    /\ get_warnings_end = get_warnings_start + 1
    /\ \E i \in DOMAIN warnings : warnings[i].effective = get_warnings_end
    /\ CallsFor("__request_observations", get_warnings_end) = {}
    /\ \A i \in DOMAIN observed : observed[i].date # get_warnings_end

\* Warnings in effect on one day only: no day is requested and the run ends in
\* the error of the empty concatenation.
SingleDayNotRequested ==
    /\ pc = "raised"
    /\ calls # <<>>
    /\ calls[Len(calls)] = "fetch_observations"
    /\ warnings # <<>>
    /\ get_warnings_end = get_warnings_start
    /\ \A k \in DOMAIN requests : requests[k].fn # "__request_observations"

\* C26: in every step of fetch_predicted_warnings, fetch_caps is called exactly
\* when neither the warnings file nor a CAP file exists, nothing is downloaded
\* or converted when the warnings file exists, caps_to_warnings is called
\* exactly when the warnings file does not exist, after the download if there
\* is one, and geolocate_stations exactly when the file of geolocated stations
\* does not exist.
C26_DownloadConvertLocate ==
    [][ /\ pc = "fetch_predicted_warnings" =>
             /\ "warnings" \in files =>
                   pc' = "check_geolocated" /\ calls' = calls
             /\ ("warnings" \notin files /\ "caps" \notin files) =>
                   pc' = "fetch_caps" /\ calls' = Append(calls, "fetch_caps")
             /\ ("warnings" \notin files /\ "caps" \in files) =>
                   pc' = "caps_to_warnings" /\ calls' = calls
        /\ pc = "fetch_caps" =>
             /\ "warnings" \notin files
             /\ calls' = calls
             /\ pc' \in {"fetch_caps", "caps_to_warnings", "raised"}
        /\ pc = "caps_to_warnings" =>
             /\ "warnings" \notin files
             /\ calls' = Append(calls, "caps_to_warnings")
        /\ pc = "check_geolocated" =>
             /\ "warnings" \in files
             /\ "geolocated" \notin files => calls' = Append(calls, "geolocate_stations")
             /\ "geolocated" \in files => calls' = calls
        /\ (calls' # calls /\ calls'[Len(calls')] # "fetch_observations") =>
             pc \in {"fetch_predicted_warnings", "caps_to_warnings", "check_geolocated"}
      ]_vars

\* C26's case: nothing on disk; the bulletins are downloaded, converted and the
\* stations geolocated, in this order.
C26_Witness ==
    /\ pc = "load_raw_data"
    /\ calls = <<"fetch_caps", "caps_to_warnings", "geolocate_stations">>
    /\ \E k \in DOMAIN requests : requests[k].fn = "__request_caps"

\* C27: an attempt of a request function follows another one of the same call
\* only when that one raised RequestException; no call makes more than 3
\* attempts; after a third RequestException, and after any other error, no
\* further attempt is made and the error ends the run.
C27_RetriedOnRequestException ==
    \A k \in DOMAIN requests :
       /\ requests[k].attempt \in 1..3
       /\ requests[k].attempt > 1 =>
             /\ k > 1
             /\ requests[k - 1].fn = requests[k].fn
             /\ requests[k - 1].day = requests[k].day
             /\ requests[k - 1].attempt = requests[k].attempt - 1
             /\ requests[k - 1].outcome = "RequestException"
       /\ (requests[k].outcome = "RequestException" /\ requests[k].attempt = 3) =>
             k = Len(requests) /\ pc = "raised"
       /\ requests[k].outcome \notin {"ok", "RequestException"} =>
             k = Len(requests) /\ pc = "raised"
       /\ (requests[k].outcome = "RequestException" /\ requests[k].attempt < 3) =>
             /\ k = Len(requests) => pc \in {"fetch_caps", "fetch_observations"}
             /\ k < Len(requests) => requests[k + 1].attempt = requests[k].attempt + 1

\* C27's case: a request for bulletins failed once and was tried again with
\* success; later a request for observations failed three times and the run
\* ended after the third attempt.
C27_Witness ==
    /\ pc = "raised"
    /\ Len(requests) >= 5
    /\ requests[1].outcome = "RequestException"
    /\ requests[2].outcome = "ok"
    /\ requests[2].attempt = 2
    /\ \A j \in 0..2 :
          /\ requests[Len(requests) - j].fn = "__request_observations"
          /\ requests[Len(requests) - j].outcome = "RequestException"
          /\ requests[Len(requests) - j].attempt = 3 - j

\* An error of another type at the first attempt ends the run at once.
OtherErrorEndsRun ==
    /\ pc = "raised"
    /\ requests # <<>>
    /\ requests[Len(requests)].attempt = 1
    /\ requests[Len(requests)].outcome = "ValueError"

(***************************************************************************)
(* __estimate_missing_observations__ and __estimate_snowfall_value__.      *)
(* Temperatures and precipitation are in tenths, altitudes in metres; the  *)
(* two temperatures aloft are computed in ten-thousandths of a degree, in  *)
(* which 6.5 degrees per 1000 m is 65 per metre.                           *)
(***************************************************************************)
MaxRawObs == 2

\* t_5500hpa = maximum_temperature + lapse_rate * (altitude - 5500) / 1000, in
\* ten-thousandths of a degree.
UpperTemperature(tmax, altitude) == tmax * 1000 + 65 * (altitude - 5500)

\* t_850hpa = int(max(-10, np.round(minimum_temperature
\*                                  - (1500 - altitude) / 1000 * 6.5, 0))), in degrees.
LowerTemperature(tmin, altitude) ==
    LET rounded == RoundDiv(tmin * 1000 - 65 * (1500 - altitude), 10000)
    IN  IF rounded > -10 THEN rounded ELSE -10

\* The function gets to the lookup in the table.
ReachesLookup(prec, tmin, tmax, altitude) ==
    /\ Gt(prec, 0)
    /\ ~(UpperTemperature(tmax, altitude) > -160000 \/ LowerTemperature(tmin, altitude) > 3)

\* The column key f"T{t_5500hpa}" after t_5500hpa = min(-42, t_5500hpa): the
\* integer -42 when t_5500hpa is -42 or more, otherwise t_5500hpa itself, a
\* float, whose text has a decimal point.
ColumnKey(upper) ==
    IF upper < -420000
    THEN [integer |-> FALSE, e4 |-> upper]
    ELSE [integer |-> TRUE, e4 |-> -420000]

\* The columns T-42 .. T-16 of get_snow_level and the rows of the table.
SnowLevelColumns == {[integer |-> TRUE, e4 |-> 10000 * t] : t \in -42..-16}
SnowLevelRows == -10..3

\* __estimate_snowfall_value__: the estimate in tenths, or the KeyError of the
\* lookup.
EstimateSnowfallValue(prec, tmin, tmax, altitude, table) ==
    LET row == LowerTemperature(tmin, altitude)
        column == ColumnKey(UpperTemperature(tmax, altitude))
    IN  IF ~ReachesLookup(prec, tmin, tmax, altitude)
        THEN [raised |-> "None", value |-> 0]
        ELSE IF row \notin SnowLevelRows \/ column \notin SnowLevelColumns
        THEN [raised |-> "KeyError", value |-> 0]
        ELSE IF altitude < table[row][column.e4 \div 10000] + 1500
        THEN [raised |-> "None", value |-> 0]
        ELSE [raised |-> "None", value |-> 10 * RoundDiv(prec, 10)]

\* A row of the observations frame as get_observations returns it: the raw
\* readings, the derived columns still empty.
RawObservation(date, idema, altitude, tmin, tmax, prec, racha) ==
    [date |-> date, idema |-> idema, altitude |-> altitude,
     precipitation |-> prec,
     val |-> [c \in ValueColumns |->
                 CASE c = "minimum_temperature" -> tmin
                   [] c = "maximum_temperature" -> tmax
                   [] c = "wind_speed" -> racha
                   [] OTHER -> NaN]]

SnowfallOf(r) ==
    EstimateSnowfallValue(r.precipitation, r.val["minimum_temperature"],
                          r.val["maximum_temperature"], r.altitude, snow_level)

\* __estimate_missing_observations__: the derived columns of every row; the
\* KeyError of a lookup ends the step.
EstimateMissingObservations ==
    /\ pc = "estimate"
    /\ IF \E i \in DOMAIN observed : SnowfallOf(observed[i]).raised # "None"
       THEN pc' = "raised" /\ observed' = observed
       ELSE /\ pc' = "geolocate"
            /\ observed' =
                  [i \in DOMAIN observed |->
                      [observed[i] EXCEPT !.val =
                          EstimatedValues(observed[i].val["minimum_temperature"],
                                          observed[i].val["maximum_temperature"],
                                          observed[i].precipitation,
                                          observed[i].val["wind_speed"],
                                          SnowfallOf(observed[i]).value > 0)]]
    /\ UNCHANGED <<thresholds, geocodes, warnings, extended, prepared, consVars, locVars,
                   runVars, snow_level>>

\* Bounded inputs: a cold, a cool and a mild day, dry, damp or wet, at three
\* altitudes; two tables of snow levels.
RawTemperatures == {<<-130, -80>>, <<-20, 20>>, <<50, 100>>}
RawPrecipitations == {0, 4, 126}
RawAltitudes == {0, 900, 2400}

RawObservations(i) ==
    {RawObservation(1, ProcStations[i].idema, a, t[1], t[2], p, 264) :
        a \in RawAltitudes, t \in RawTemperatures, p \in RawPrecipitations}

SnowLevelTables ==
    {[t \in SnowLevelRows |-> [c \in -42..-16 |-> 100 * t + base]] : base \in {-1500, 0}}

InitEst ==
    /\ pc = "estimate"
    /\ \E n \in 1..MaxRawObs :
          observed \in {f \in [1..n -> UNION {RawObservations(i) : i \in 1..n}] :
                           \A i \in 1..n : f[i] \in RawObservations(i)}
    /\ snow_level \in SnowLevelTables
    /\ files = {}
    /\ event = [start |-> 0, end |-> 0]
    /\ calls = <<>>
    /\ requests = <<>>
    /\ attempt = 0
    /\ day = 0
    /\ thresholds = <<>>
    /\ geocodes = <<>>
    /\ warnings = <<>>
    /\ extended = <<>>
    /\ prepared = <<>>
    /\ caps = 0
    /\ capFiles = <<>>
    /\ stations = <<>>
    /\ stat = <<>>
    /\ capsDf = <<>>
    /\ expandedDf = <<>>
    /\ warningsFile = <<>>

NextEst == EstimateMissingObservations

SpecEst == InitEst /\ [][NextEst]_vars

\* The six precipitation estimates of a row.
PrecipitationEstimates ==
    {"uniform_precipitation_1h", "severe_precipitation_1h", "extreme_precipitation_1h",
     "uniform_precipitation_12h", "severe_precipitation_12h", "extreme_precipitation_12h"}

\* The estimate of a column from the daily total (tenths of mm).
ShareOfTotal(c, prec) ==
    CASE c = "uniform_precipitation_1h" -> RoundDiv(prec, 24)
      [] c = "severe_precipitation_1h" -> RoundDiv(prec * 33, 100)
      [] c = "extreme_precipitation_1h" -> RoundDiv(prec * 75, 100)
      [] c = "uniform_precipitation_12h" -> RoundDiv(prec, 2)
      [] c = "severe_precipitation_12h" -> RoundDiv(prec * 75, 100)
      [] c = "extreme_precipitation_12h" -> prec

Estimated == pc = "geolocate"

\* C29: after __estimate_missing_observations__ a row with snowfall_24h greater
\* than 0 has its six precipitation estimates equal to 0, and a row with
\* snowfall_24h equal to 0 has the estimates computed from its daily total.
C29_SnowReplacesRain ==
    Estimated =>
        \A i \in DOMAIN observed :
           /\ observed[i].val["snowfall_24h"] >= 0
           /\ observed[i].val["snowfall_24h"] > 0 =>
                 \A c \in PrecipitationEstimates : observed[i].val[c] = 0
           /\ observed[i].val["snowfall_24h"] = 0 =>
                 \A c \in PrecipitationEstimates :
                    observed[i].val[c] = ShareOfTotal(c, observed[i].precipitation)

\* C29's case: a station with snow, its estimates at 0, and a station with rain
\* on the same day, its estimates kept.
C29_Witness ==
    /\ Estimated
    /\ \E i, j \in DOMAIN observed :
          /\ observed[i].val["snowfall_24h"] = 130
          /\ observed[i].val["extreme_precipitation_12h"] = 0
          /\ observed[j].val["snowfall_24h"] = 0
          /\ observed[j].val["extreme_precipitation_12h"] = 126
          /\ observed[j].val["uniform_precipitation_1h"] = 5

\* C30 as stated: whenever the readings of a row take the function to the
\* lookup, the row key is an integer from -10 to 3 and the column key names an
\* integer temperature from -42 to -16, one of the columns of the table.
C30_LookupKeysDefined ==
    \A i \in DOMAIN observed :
       ReachesLookup(observed[i].precipitation, observed[i].val["minimum_temperature"],
                     observed[i].val["maximum_temperature"], observed[i].altitude) =>
          /\ LowerTemperature(observed[i].val["minimum_temperature"], observed[i].altitude)
                \in SnowLevelRows
          /\ ColumnKey(UpperTemperature(observed[i].val["maximum_temperature"],
                                        observed[i].altitude)) \in SnowLevelColumns

\* What holds instead: the lower temperature is never below -10, so the row key
\* of a lookup is a row of the table; a column key that is an integer is -42.
RowKeyDefined ==
    \A i \in DOMAIN observed :
       /\ LowerTemperature(observed[i].val["minimum_temperature"], observed[i].altitude)
             >= -10
       /\ LET column == ColumnKey(UpperTemperature(observed[i].val["maximum_temperature"],
                                                   observed[i].altitude))
          IN  column.integer => column.e4 = -420000

\* A station at sea level with a maximum of -8.0 degrees and precipitation: the
\* temperature aloft is -43.75, the column key is not a column and the step ends
\* in the KeyError.
LookupRaises ==
    /\ pc = "raised"
    /\ \E i \in DOMAIN observed :
          /\ observed[i].altitude = 0
          /\ observed[i].val["maximum_temperature"] = -80
          /\ Gt(observed[i].precipitation, 0)
          /\ UpperTemperature(-80, 0) = -437500
          /\ SnowfallOf(observed[i]).raised = "KeyError"

====
